---- MODULE Spec2Model ----
(***************************************************************************)
(* Model of Ska.engarchive.fetch: the MSID / MSIDset objects, their        *)
(* bad-value and bad-time filters, and the two interval detectors          *)
(* (MSID.logical_intervals and MSID.state_intervals).                      *)
(*                                                                         *)
(* Conventions                                                             *)
(*   - numpy arrays are sequences (1-based here, 0-based in the source);   *)
(*   - an attribute that may be None (self.bads) is a record               *)
(*     [isNone, a]: None is the sentinel, Arr(s) an array with elements s; *)
(*   - times are float CXC seconds in the source; the model counts time    *)
(*     in half seconds, T(s) being s seconds, and draws sample times from  *)
(*     whole seconds, so that the halving done by state_intervals is       *)
(*     exact, as it is for floats;                                         *)
(*   - a raised exception is recorded by name in outcome.                  *)
(*   - the datestart/datestop columns of the interval tables are           *)
(*     DateTime(t).date of tstart/tstop and are not modelled.              *)
(***************************************************************************)
EXTENDS Integers, Sequences, FiniteSets, TLC

VARIABLES
    msids,      \* the MSID objects (an MSIDset: name -> MSID attributes)
    msidset,    \* the MSIDset's own attributes tstart, tstop and times
    call,       \* the operation last called, with its arguments
    outcome,    \* "ok" or the name of the exception the call raised
    intervals   \* table returned by the last interval detector

VARIABLES
    archive,      \* the archive on disk: archfiles tables and HDF5 columns
    memo,         \* get_interval.cache, the dictionary of the memoized decorator
    times_cache,  \* the module-level dictionary times_cache
    lru,          \* the cache of _get_msid_data_cached, least recent first
    CACHE,        \* the module-level toggle CACHE
    unit_system,  \* units.units['system']
    ret           \* what the last read or get_interval call returned

\* the process-wide state of the module
store == <<archive, memo, times_cache, lru, CACHE, unit_system>>

vars == <<msids, msidset, call, outcome, intervals, store, ret>>

----------------------------------------------------------------------------
(* Bounds *)

MaxLen == 4          \* longest sample sequence drawn for the detectors
MaxBad == 1          \* most samples flagged bad in a drawn detector mask
MaxSamples == 2      \* most samples of an MSID of the filtered MSIDset
MaxSetBad == 1       \* most samples flagged bad in a mask of that MSIDset
MaxRows == 3         \* most rows of a content type in a drawn archive
MaxFiles == 2        \* most files in the archfiles table of a drawn archive
MaxKeys == 1         \* most argument tuples get_interval is called with
MaxPat == 2          \* longest MSID pattern drawn for msid_glob
MaxWindows == 2      \* most distinct time windows read from one archive
MaxOver == 2         \* distinct keys read beyond the capacity of the lru cache

(* Sample values and comparison values *)
Vals == {0, 1, 2}
CmpVals == {1}

(* s seconds, in the half-second units of the model *)
T(s) == 2 * s

(* The times of a content type: strictly increasing timestamps, irregularly *)
(* spaced in g1 (0, 2, 6, 12, ... s) and regularly in g2 (0, 1, 2, ... s)   *)
BaseOf(content) ==
    IF content = "g1" THEN [i \in 1..(MaxLen + 1) |-> T((i - 1) * i)]
    ELSE [i \in 1..(MaxLen + 1) |-> T(i - 1)]

----------------------------------------------------------------------------
(* numpy / Python primitives *)

None == [isNone |-> TRUE, a |-> <<>>]
Arr(s) == [isNone |-> FALSE, a |-> s]

\* the attributes of an MSIDset that has not been constructed from a window
NoSet == [tstart |-> 0, tstop |-> 0, times |-> None]

\* the record of a call: which operation, on which MSID, with which arguments,
\* and whether that MSID had a boolean mask when the call was made
NoCall == [name |-> "none", msid |-> "", op |-> "", val |-> 0,
           start |-> None, stop |-> None, table |-> None, masked |-> FALSE]

\* numpy.any(b)
any(b) == \E i \in 1..Len(b) : b[i]

\* ~b on a boolean array
Not(b) == [i \in 1..Len(b) |-> ~b[i]]

\* numpy.flatnonzero(b): indices of the True entries, ascending
RECURSIVE flatnonzero(_)
flatnonzero(b) ==
    IF Len(b) = 0 THEN <<>>
    ELSE LET rest == flatnonzero(SubSeq(b, 1, Len(b) - 1))
         IN IF b[Len(b)] THEN Append(rest, Len(b)) ELSE rest

\* a[idx] for an integer index array idx
Take(a, idx) == [k \in 1..Len(idx) |-> a[idx[k]]]

\* a[ok] for a boolean index array ok of the same length as a
Select(a, ok) == Take(a, flatnonzero(ok))

\* operator.eq, ne, gt, lt, ge, le looked up in the ops dictionary
ops == {"==", "!=", ">", "<", ">=", "<="}

Apply(op, x, y) ==
    CASE op = "==" -> x = y
      [] op = "!=" -> x # y
      [] op = ">"  -> x > y
      [] op = "<"  -> x < y
      [] op = ">=" -> x >= y
      [] op = "<=" -> x <= y

----------------------------------------------------------------------------
(* Local bad-value filtering shared by both detectors *)

GoodVals(self) ==
    IF ~self.bads.isNone /\ any(self.bads.a)
    THEN Select(self.vals, Not(self.bads.a)) ELSE self.vals

\* variant: the times are left unfiltered
GoodTimesUnfiltered(self) == self.times

GoodTimes(self) ==
    IF ~self.bads.isNone /\ any(self.bads.a)
    THEN Select(self.times, Not(self.bads.a)) ELSE self.times

----------------------------------------------------------------------------
(* MSID.logical_intervals(op, val) *)

\* starts = ~op(vals[:-1], val) & op(vals[1:], val)
Starts(vals, op, val) ==
    [i \in 1..(Len(vals) - 1) |->
        ~Apply(op, vals[i], val) /\ Apply(op, vals[i + 1], val)]

\* ends = op(vals[:-1], val) & ~op(vals[1:], val)
Ends(vals, op, val) ==
    [i \in 1..(Len(vals) - 1) |->
        Apply(op, vals[i], val) /\ ~Apply(op, vals[i + 1], val)]

\* variant: the trailing start is kept
IStartsAll(vals, op, val) == flatnonzero(Starts(vals, op, val))

\* i_starts, without the last one when the last sample satisfies the predicate
IStarts(vals, op, val) ==
    LET i_starts == flatnonzero(Starts(vals, op, val))
    IN IF Apply(op, vals[Len(vals)], val)
       THEN SubSeq(i_starts, 1, Len(i_starts) - 1) ELSE i_starts

\* i_ends, without the first one when the first sample satisfies the predicate
IEnds(vals, op, val) ==
    LET i_ends == flatnonzero(Ends(vals, op, val))
    IN IF Apply(op, vals[1], val)
       THEN SubSeq(i_ends, 2, Len(i_ends)) ELSE i_ends

\* the exception logical_intervals raises, or "ok"
LogicalOutcome(self, op, val) ==
    LET vals == GoodVals(self)
    IN IF op \notin ops THEN "ValueError"
       ELSE IF Len(vals) = 0 THEN "IndexError"      \* vals[-1]
       ELSE IF Len(IStarts(vals, op, val)) # Len(IEnds(vals, op, val))
            THEN "ValueError"                       \* times[i_ends] - times[i_starts]
       ELSE "ok"

\* variant: the start is the first sample where the predicate holds
LogicalIntervalsPost(self, op, val) ==
    LET vals == GoodVals(self)
        times == GoodTimes(self)
        i_starts == IStarts(vals, op, val)
        tstarts == [k \in 1..Len(i_starts) |-> times[i_starts[k] + 1]]
        tstops == Take(times, IEnds(vals, op, val))
    IN [k \in 1..Len(tstarts) |->
           [tstart |-> tstarts[k], tstop |-> tstops[k],
            duration |-> tstops[k] - tstarts[k]]]

\* the table logical_intervals returns
LogicalIntervals(self, op, val) ==
    LET vals == GoodVals(self)
        times == GoodTimes(self)
        tstarts == Take(times, IStarts(vals, op, val))
        tstops == Take(times, IEnds(vals, op, val))
    IN [k \in 1..Len(tstarts) |->
           [tstart |-> tstarts[k], tstop |-> tstops[k],
            duration |-> tstops[k] - tstarts[k]]]

logical_intervals(m, op, val) ==
    /\ call' = [NoCall EXCEPT !.name = "logical_intervals", !.msid = m,
                               !.op = op, !.val = val]
    /\ outcome' = LogicalOutcome(msids[m], op, val)
    /\ intervals' = IF outcome' = "ok"
                    THEN LogicalIntervals(msids[m], op, val) ELSE <<>>
    /\ UNCHANGED <<msidset, msids, store, ret>>

----------------------------------------------------------------------------
(* MSID.state_intervals() *)

\* transitions = hstack([[True], vals[:-1] != vals[1:], [True]])
Transitions(vals) ==
    [i \in 1..(Len(vals) + 1) |->
        i = 1 \/ i = Len(vals) + 1 \/ vals[i - 1] # vals[i]]

\* variant: the boundary is the sample before the change
MidtimesLeft(times) ==
    LET n == Len(times)
        t0 == times[1] - (times[2] - times[1]) \div 2
        t1 == times[n] + (times[n] - times[n - 1]) \div 2
    IN [i \in 1..(n + 1) |->
           IF i = 1 THEN t0 ELSE IF i = n + 1 THEN t1 ELSE times[i - 1]]

\* midtimes = hstack([[t0], (times[:-1] + times[1:]) / 2, [t1]])
Midtimes(times) ==
    LET n == Len(times)
        t0 == times[1] - (times[2] - times[1]) \div 2
        t1 == times[n] + (times[n] - times[n - 1]) \div 2
    IN [i \in 1..(n + 1) |->
           IF i = 1 THEN t0
           ELSE IF i = n + 1 THEN t1
           ELSE (times[i - 1] + times[i]) \div 2]

\* the exception state_intervals raises, or "ok"
StateOutcome(self) ==
    IF Len(self.vals) < 2 THEN "ValueError"
    ELSE IF Len(GoodTimes(self)) < 2 THEN "IndexError"   \* times[0], times[1]
    ELSE "ok"

\* the table state_intervals returns
StateIntervals(self) ==
    LET vals == GoodVals(self)
        times == GoodTimes(self)
        transitions == Transitions(vals)
        state_vals == Select(vals, Tail(transitions))
        state_times == Select(Midtimes(times), transitions)
    IN [k \in 1..(Len(state_times) - 1) |->
           [tstart |-> state_times[k], tstop |-> state_times[k + 1],
            duration |-> state_times[k + 1] - state_times[k],
            val |-> state_vals[k]]]

state_intervals(m) ==
    /\ call' = [NoCall EXCEPT !.name = "state_intervals", !.msid = m]
    /\ outcome' = StateOutcome(msids[m])
    /\ intervals' = IF outcome' = "ok" THEN StateIntervals(msids[m]) ELSE <<>>
    /\ UNCHANGED <<msidset, msids, store, ret>>

----------------------------------------------------------------------------
(* The archive on disk and the module state at import *)

\* no archive: the operations on fetched MSID objects never read it
NoArchive == [archfiles |-> <<>>, content |-> <<>>, h5 |-> <<>>]

\* times_cache = dict(key=None); the memoized and lru caches start empty;
\* CACHE = False; the default unit system is "cxc"
InitStore(arch) ==
    /\ archive = arch
    /\ memo = <<>>
    /\ times_cache = [key |-> None]
    /\ lru = <<>>
    /\ CACHE = FALSE
    /\ unit_system = "cxc"

\* the time of row k of a content type's TIME column (rows are sampled
\* every two seconds starting at 2 s)
RowTime(k) == T(2 * k)

\* the archfiles table of a content type with n rows, cut into files after
\* the rows of cuts; a file's filetime is the time of its first row, or a
\* second earlier (early); its tstop is the time of its last row, or a
\* second later (late).  Rows are numbered from 0, rowstop is exclusive.
Archfiles(n, cuts, early, late) ==
    LET lasts == {c \in 1..n : c \in cuts \/ c = n}
        First(c) == IF \E d \in lasts : d < c
                    THEN 1 + CHOOSE d \in lasts :
                                 d < c /\ \A e \in lasts : e < c => e <= d
                    ELSE 1
        Entry(c) == [filetime |-> RowTime(First(c)) - (IF early THEN T(1) ELSE 0),
                     tstart |-> RowTime(First(c)),
                     tstop |-> RowTime(c) + (IF late THEN T(1) ELSE 0),
                     rowstart |-> First(c) - 1,
                     rowstop |-> c]
    IN [k \in 1..Cardinality(lasts) |->
           Entry(CHOOSE c \in lasts : Cardinality({d \in lasts : d <= c}) = k)]

----------------------------------------------------------------------------
(* msid_glob(msid): a Python string is the sequence of its characters *)

MAX_GLOB_MATCHES == 10

\* c.upper() and c.lower() for the characters of the drawn names
upper(c) ==
    CASE c = "a" -> "A" [] c = "b" -> "B" [] c = "c" -> "C" [] c = "d" -> "D"
      [] c = "p" -> "P" [] c = "x" -> "X" [] OTHER -> c

lower(c) ==
    CASE c = "A" -> "a" [] c = "B" -> "b" [] c = "C" -> "c" [] c = "D" -> "d"
      [] c = "P" -> "p" [] c = "X" -> "x" [] OTHER -> c

Upper(s) == [i \in 1..Len(s) |-> upper(s[i])]
Lower(s) == [i \in 1..Len(s) |-> lower(s[i])]

\* fnmatch: '*' matches any run of characters, '?' any single character,
\* every other character itself (case-sensitive, as on POSIX)
RECURSIVE fnmatch(_, _)
fnmatch(name, pat) ==
    IF pat = <<>> THEN name = <<>>
    ELSE IF Head(pat) = "*"
         THEN fnmatch(name, Tail(pat))
                  \/ (name # <<>> /\ fnmatch(Tail(name), pat))
    ELSE IF name = <<>> THEN FALSE
    ELSE (Head(pat) = "?" \/ Head(pat) = Head(name))
             /\ fnmatch(Tail(name), Tail(pat))

\* the keys of content equal to match, in the order of the dictionary
ExactKeys(content, match) ==
    LET Is(e) == e.chars = match IN SelectSeq(content, Is)

\* fnmatch.filter(content.keys(), match)
FilterKeys(content, match) ==
    LET Is(e) == fnmatch(e.chars, match) IN SelectSeq(content, Is)

\* variant: the derived-parameter name is tried before the name itself
CandidatesPrefixFirst(msid) ==
    << <<"D", "P", "_">> \o Upper(msid), Upper(msid) >>

\* (MSID, 'DP_' + MSID), the tuple both loops of msid_glob run over
Candidates(msid) ==
    << Upper(msid), <<"D", "P", "_">> \o Upper(msid) >>

\* the (msids, MSIDs) msid_glob returns, or the ValueError it raises
MsidGlob(content, msid) ==
    LET match == Candidates(msid)
        Exact(k) == ExactKeys(content, match[k])
        Globbed(k) ==
            LET matches == FilterKeys(content, match[k])
            IN IF Len(matches) > MAX_GLOB_MATCHES
               THEN [err |-> "ValueError: MSID spec matches more than MAX_GLOB_MATCHES MSIDs",
                     msids |-> <<>>, MSIDs |-> <<>>]
               ELSE [err |-> "ok",
                     msids |-> [j \in 1..Len(matches) |-> Lower(matches[j].chars)],
                     MSIDs |-> matches]
    IN IF Exact(1) # <<>>
       THEN [err |-> "ok", msids |-> <<msid>>, MSIDs |-> Exact(1)]
       ELSE IF Exact(2) # <<>>
       THEN [err |-> "ok", msids |-> <<msid>>, MSIDs |-> Exact(2)]
       ELSE IF FilterKeys(content, match[1]) # <<>> THEN Globbed(1)
       ELSE IF FilterKeys(content, match[2]) # <<>> THEN Globbed(2)
       ELSE [err |-> "ValueError: MSID is not in Eng Archive",
             msids |-> <<>>, MSIDs |-> <<>>]

msid_glob(msid) ==
    LET r == MsidGlob(archive.content, msid)
    IN /\ outcome' = r.err
       /\ ret' = [msids |-> r.msids, MSIDs |-> r.MSIDs]
       /\ call' = [name |-> "msid_glob", msid |-> msid]
       /\ UNCHANGED <<msidset, msids, intervals, store>>

----------------------------------------------------------------------------
(* get_interval(content, tstart, tstop) and the memoized decorator *)

\* db.fetchone('SELECT ... FROM archfiles WHERE filetime < ? order by
\* filetime desc', (t,)): the row with the greatest filetime below t, or None
FetchLatestBefore(rows, t) ==
    LET S == {k \in 1..Len(rows) : rows[k].filetime < t}
    IN IF S = {} THEN None
       ELSE Arr(rows[CHOOSE k \in S :
                        \A j \in S : rows[j].filetime <= rows[k].filetime])

\* variant: the row is chosen by the tstop column
FetchEarliestStopAfter(rows, t) ==
    LET S == {k \in 1..Len(rows) : rows[k].tstop > t}
    IN IF S = {} THEN None
       ELSE Arr(rows[CHOOSE k \in S :
                        \A j \in S : rows[k].tstop <= rows[j].tstop])

\* db.fetchone('SELECT ... FROM archfiles WHERE filetime > ? order by
\* filetime asc', (t,)): the row with the least filetime above t, or None
FetchEarliestAfter(rows, t) ==
    LET S == {k \in 1..Len(rows) : rows[k].filetime > t}
    IN IF S = {} THEN None
       ELSE Arr(rows[CHOOSE k \in S :
                        \A j \in S : rows[k].filetime <= rows[j].filetime])

\* db.fetchone('SELECT ... FROM archfiles order by filetime asc')
FetchFirst(rows) ==
    IF Len(rows) = 0 THEN None
    ELSE Arr(rows[CHOOSE k \in 1..Len(rows) :
                     \A j \in 1..Len(rows) : rows[k].filetime <= rows[j].filetime])

\* variant: the fallback of the upper bound is the first file
FetchLastAsFirst(rows) == FetchFirst(rows)

\* db.fetchone('SELECT ... FROM archfiles order by filetime desc')
FetchLast(rows) ==
    IF Len(rows) = 0 THEN None
    ELSE Arr(rows[CHOOSE k \in 1..Len(rows) :
                     \A j \in 1..Len(rows) : rows[j].filetime <= rows[k].filetime])

\* the body of get_interval: slice(rowstart, rowstop), or the TypeError of
\* query_row['rowstart'] on the None that fetchone returns for an empty table
GetInterval(arch, content, tstart, tstop) ==
    LET rows == arch.archfiles[content]
        q1 == FetchLatestBefore(rows, tstart)
        lo == IF q1.isNone THEN FetchFirst(rows) ELSE q1
        q2 == FetchEarliestAfter(rows, tstop)
        hi == IF q2.isNone THEN FetchLast(rows) ELSE q2
    IN IF lo.isNone \/ hi.isNone THEN [err |-> "TypeError", slice |-> <<>>]
       ELSE [err |-> "ok", slice |-> <<lo.a.rowstart, hi.a.rowstop>>]

\* variant: the cache keeps the last value only
MemoizedMissOneSlot(cache, args, r) ==
    IF r.err # "ok"
    THEN [err |-> r.err, slice |-> <<>>, cache |-> cache, io |-> <<"archfiles">>]
    ELSE [err |-> "ok", slice |-> r.slice,
          cache |-> [k \in {args} |-> r.slice], io |-> <<"archfiles">>]

\* what memoized.__call__ does with the value r of the function for
\* arguments not in the cache: r is stored, unless the call raised
MemoizedMiss(cache, args, r) ==
    IF r.err # "ok"
    THEN [err |-> r.err, slice |-> <<>>, cache |-> cache, io |-> <<"archfiles">>]
    ELSE [err |-> "ok", slice |-> r.slice,
          cache |-> [k \in DOMAIN cache \cup {args} |->
                        IF k = args THEN r.slice ELSE cache[k]],
          io |-> <<"archfiles">>]

\* memoized.__call__: the cached value for the argument tuple, or the
\* function's value, which is stored; a call that raises stores nothing.
\* io lists the storage the call reads: the archfiles table, if it is queried.
Memoized(arch, cache, content, tstart, tstop) ==
    IF <<content, tstart, tstop>> \in DOMAIN cache
    THEN [err |-> "ok", slice |-> cache[<<content, tstart, tstop>>],
          cache |-> cache, io |-> <<>>]
    ELSE MemoizedMiss(cache, <<content, tstart, tstop>>,
                      GetInterval(arch, content, tstart, tstop))

\* the record of a call of the read path: its arguments and the storage it
\* read (the archfiles table, the TIME column, the column of an MSID)
ReadCall(name, content, tstart, tstop, msid, io) ==
    [name |-> name, content |-> content, tstart |-> tstart, tstop |-> tstop,
     msid |-> msid, io |-> io]

get_interval(content, tstart, tstop) ==
    LET r == Memoized(archive, memo, content, tstart, tstop)
    IN /\ memo' = r.cache
       /\ outcome' = r.err
       /\ ret' = r.slice
       /\ call' = ReadCall("get_interval", content, tstart, tstop, "", r.io)
       /\ UNCHANGED <<msidset, msids, intervals, archive, times_cache, lru, CACHE,
                      unit_system>>

----------------------------------------------------------------------------
(* MSID._get_msid_data(content, tstart, tstop, msid) *)

\* numpy.all(b)
all(b) == \A i \in 1..Len(b) : b[i]

\* column[h5_slice] for slice(rowstart, rowstop)
H5Slice(column, slice) ==
    LET stop == IF slice[2] < Len(column) THEN slice[2] ELSE Len(column)
    IN SubSeq(column, slice[1] + 1, stop)

\* numpy.searchsorted(a, v): binary search for the leftmost insertion
\* point of v, counted from 0
RECURSIVE bisect_left(_, _, _, _)
bisect_left(a, v, lo, hi) ==
    IF lo >= hi THEN lo
    ELSE LET mid == (lo + hi) \div 2
         IN IF a[mid + 1] < v THEN bisect_left(a, v, mid + 1, hi)
            ELSE bisect_left(a, v, lo, mid)

searchsorted(a, v) == bisect_left(a, v, 0, Len(a))

\* a[row0:row1]
PySlice(a, row0, row1) == SubSeq(a, row0 + 1, row1)

\* units.convert(MSID, vals) under the selected unit system: the archive
\* holds cxc units; the other systems shift the values of a temperature (A)
Convert(system, MSID, vals) ==
    IF system = "cxc" \/ MSID # "A" THEN vals
    ELSE [i \in 1..Len(vals) |-> vals[i] - 273]

\* variant: the key is compared without tstop
TimesCacheHitStart(tc, content, tstart, tstop) ==
    ~tc.key.isNone /\ tc.key.a[1] = content /\ tc.key.a[2] = tstart

\* times_cache['key'] == (content, tstart, tstop)
TimesCacheHit(tc, content, tstart, tstop) ==
    tc.key = Arr(<<content, tstart, tstop>>)

\* variant: the rows are kept as read
KeepRows(a, times_ok, times_all_ok) == a

\* if not times_all_ok: a = a[times_ok]
FilterRows(a, times_ok, times_all_ok) ==
    IF ~times_all_ok THEN Select(a, times_ok) ELSE a

\* the TIME values of the row range slice: those of times_cache on a hit,
\* else the rows read from the file, without the rows of bad time
ReadTimes(tc, hit, time, slice) ==
    IF hit THEN [val |-> tc.val, ok |-> tc.ok, all_ok |-> tc.all_ok]
    ELSE LET times_ok == Not(H5Slice(time.quality, slice))
         IN [val |-> FilterRows(H5Slice(time.data, slice), times_ok, all(times_ok)),
             ok |-> times_ok, all_ok |-> all(times_ok)]

\* the rows of column a over the row range, without the rows of bad time,
\* cut to the positions of tstart and tstop in the times t
ReadRows(a, slice, t, tstart, tstop) ==
    PySlice(FilterRows(H5Slice(a, slice), t.ok, t.all_ok),
            searchsorted(t.val, tstart), searchsorted(t.val, tstop))

\* the rest of _get_msid_data once get_interval has returned gi and the
\* times t have been read; key is (content, tstart, tstop)
ReadColumns(tc, hit, system, h5, key, msid, gi, t) ==
    [outcome |-> "ok",
     val |-> [vals |-> Convert(system, msid,
                               ReadRows(h5.cols[msid].data, gi.slice, t, key[2], key[3])),
              times |-> PySlice(t.val, searchsorted(t.val, key[2]),
                                searchsorted(t.val, key[3])),
              bads |-> ReadRows(h5.cols[msid].quality, gi.slice, t, key[2], key[3]),
              colnames |-> <<"times", "vals", "bads">>],
     memo |-> gi.cache,
     times_cache |-> IF hit THEN tc
                     ELSE [key |-> Arr(key), val |-> t.val, ok |-> t.ok,
                           all_ok |-> t.all_ok],
     io |-> gi.io \o (IF hit THEN <<>> ELSE <<"time">>) \o <<msid>>]

\* _get_msid_data after get_interval has returned gi or raised
ReadSlice(tc, hit, system, h5, key, msid, gi) ==
    IF gi.err # "ok"
    THEN [outcome |-> gi.err, val |-> <<>>, memo |-> gi.cache,
          times_cache |-> tc, io |-> gi.io]
    ELSE ReadColumns(tc, hit, system, h5, key, msid, gi,
                     ReadTimes(tc, hit, h5.time, gi.slice))

\* the (vals, times, bads, colnames) _get_msid_data returns or the exception
\* of get_interval, with the dictionaries of get_interval and times_cache as
\* the call leaves them and the storage the call read
GetMsidData(arch, cache, tc, system, content, tstart, tstop, msid) ==
    ReadSlice(tc, TimesCacheHit(tc, content, tstart, tstop), system,
              arch.h5[content], <<content, tstart, tstop>>, msid,
              Memoized(arch, cache, content, tstart, tstop))

----------------------------------------------------------------------------
(* cache.lru_cache(30) around _get_msid_data, and MSID._get_data *)

LruMaxsize == 30

\* the position of key in the cache, 0 if it is not held
LruFind(cache, key) ==
    IF \E i \in 1..Len(cache) : cache[i].key = key
    THEN CHOOSE i \in 1..Len(cache) : cache[i].key = key ELSE 0

\* a hit records the use: the entry becomes the most recently used
LruRenew(cache, i) ==
    SubSeq(cache, 1, i - 1) \o SubSeq(cache, i + 1, Len(cache)) \o <<cache[i]>>

\* a miss stores the result and purges the least recently used entry when
\* the cache holds more than maxsize entries
LruStore(cache, key, val) ==
    LET c == Append(cache, [key |-> key, val |-> val])
    IN IF Len(c) > LruMaxsize THEN Tail(c) ELSE c

\* the wrapper of lru_cache: the tuple held for key, or the value r of the
\* wrapped function, which is stored unless the call raised
LruCall(lr, key, i, cache, tc, r) ==
    IF i # 0
    THEN [outcome |-> "ok", val |-> lr[i].val, memo |-> cache,
          times_cache |-> tc, io |-> <<>>, lru |-> LruRenew(lr, i)]
    ELSE [outcome |-> r.outcome, val |-> r.val, memo |-> r.memo,
          times_cache |-> r.times_cache, io |-> r.io,
          lru |-> IF r.outcome = "ok" THEN LruStore(lr, key, r.val) ELSE lr]

\* _get_msid_data_cached(content, tstart, tstop, msid)
GetMsidDataCached(arch, cache, tc, lr, system, content, tstart, tstop, msid) ==
    LruCall(lr, <<content, tstart, tstop, msid>>,
            LruFind(lr, <<content, tstart, tstop, msid>>), cache, tc,
            GetMsidData(arch, cache, tc, system, content, tstart, tstop, msid))

\* the result r of _get_msid_data called directly: the lru cache is as it was
Direct(lr, r) ==
    [outcome |-> r.outcome, val |-> r.val, memo |-> r.memo,
     times_cache |-> r.times_cache, io |-> r.io, lru |-> lr]

\* variant: the toggle is not consulted
GetDataUncached(arch, cache, tc, lr, on, system, content, tstart, tstop, msid) ==
    Direct(lr, GetMsidData(arch, cache, tc, system, content, tstart, tstop, msid))

\* gmd = self._get_msid_data_cached if CACHE else self._get_msid_data
GetData(arch, cache, tc, lr, on, system, content, tstart, tstop, msid) ==
    IF on
    THEN GetMsidDataCached(arch, cache, tc, lr, system,
                           content, tstart, tstop, msid)
    ELSE Direct(lr, GetMsidData(arch, cache, tc, system,
                                content, tstart, tstop, msid))

----------------------------------------------------------------------------
(* get_interval applied to archives drawn from bounded sets *)

\* sample values of MSID number k: they tell the MSIDs and the rows apart
RawVals(k, n) == [i \in 1..n |-> 10 * k + i]

AllGood(n) == [k \in 1..n |-> FALSE]

\* a key of the module-level dictionary content: the MSID name as a string
\* and as the sequence of its characters, and its content type
Key(name, chars) == [name |-> name, chars |-> chars, content |-> "g1"]

\* the MSIDs of the archives drawn for the readers
TwoMSIDs == << Key("A", <<"A">>), Key("B", <<"B">>) >>

\* an archive with one content type, g1, of n rows and the MSIDs of catalog;
\* tq is the quality (bad) flag of the TIME column and aq that of the column
\* of the first MSID, the other columns being good.  The TIME value of a
\* row flagged bad is not a time of the sequence (0 here).
Archive(catalog, n, cuts, early, late, tq, aq) ==
    [archfiles |-> [g1 |-> Archfiles(n, cuts, early, late)],
     content |-> catalog,
     h5 |-> [g1 |->
         [time |-> [data |-> [k \in 1..n |-> IF tq[k] THEN 0 ELSE RowTime(k)],
                    quality |-> tq],
          cols |-> [nm \in {catalog[k].name : k \in 1..Len(catalog)} |->
                      LET k == CHOOSE j \in 1..Len(catalog) : catalog[j].name = nm
                      IN [data |-> RawVals(k, n),
                          quality |-> IF k = 1 THEN aq ELSE AllGood(n)]]]]]

\* the sets of rows after which an archive of n rows is cut into files
Cuts(n) == {c \in SUBSET (1..(n - 1)) : Cardinality(c) < MaxFiles}

\* archives whose archfiles table is sorted and non-overlapping, with all
\* rows good, and the archive whose table is empty
LocateArchives ==
    UNION { { Archive(TwoMSIDs, n, cuts, wide, wide, AllGood(n), AllGood(n))
                : cuts \in Cuts(n), wide \in BOOLEAN }
            : n \in 1..MaxRows }
    \cup { [Archive(TwoMSIDs, 0, {}, FALSE, FALSE, <<>>, <<>>)
               EXCEPT !.archfiles = [g1 |-> <<>>]] }

\* times a query may start or stop at: every second from 0 to a second after
\* the tstop of the last file that can be drawn
QueryTimes == {T(x) : x \in 0..(2 * MaxRows + 2)}

InitLocate ==
    /\ \E arch \in LocateArchives : InitStore(arch)
    /\ msids = <<>>
    /\ call = NoCall
    /\ outcome = "ok"
    /\ intervals = <<>>
    /\ ret = <<>>
    /\ msidset = NoSet

\* the windows queried: tstart <= tstop or reversed by a second, up to a
\* second after the tstop of the last file of the archive
LocateWindows ==
    LET n == Len(archive.h5["g1"].time.data)
    IN {w \in QueryTimes \X QueryTimes :
            w[1] <= w[2] + T(1) /\ w[2] <= T(2 * n + 2)}

NextLocate ==
    \E w \in LocateWindows :
        /\ <<"g1", w[1], w[2]>> \in DOMAIN memo
              \/ Cardinality(DOMAIN memo) < MaxKeys
        /\ get_interval("g1", w[1], w[2])

SpecLocate == InitLocate /\ [][NextLocate]_vars

----------------------------------------------------------------------------
(* The detectors applied to one MSID drawn from bounded sets *)

\* all sequences over S of length n
SeqsOf(S, n) == [1..n -> S]

\* boolean masks of length n with at most k True entries
Masks(n, k) == {b \in [1..n -> BOOLEAN] : Cardinality({i \in 1..n : b[i]}) <= k}

\* attributes of an MSID object fetched without stat
NewMSID(MSID, content, times, vals, bads) ==
    [MSID |-> MSID, content |-> content, colnames |-> <<"times", "vals", "bads">>,
     times |-> times, vals |-> vals, bads |-> bads]

\* the two series of the documented examples
ExampleMSIDs ==
    { NewMSID("A", "g1", [i \in 1..6 |-> T(i - 1)], <<0, 0, 1, 1, 0, 1>>, b)
        : b \in {None, Arr([i \in 1..6 |-> FALSE])} }
    \cup
    { NewMSID("A", "g1", [i \in 1..6 |-> T(10 * (i - 1))], <<5, 5, 7, 7, 7, 2>>, b)
        : b \in {None, Arr([i \in 1..6 |-> FALSE])} }

DrawnMSIDs ==
    UNION { { NewMSID("A", "g1", SubSeq(BaseOf("g1"), 1, n), v, b)
                : v \in SeqsOf(Vals, n),
                  b \in {None} \cup {Arr(x) : x \in Masks(n, MaxBad)} }
            : n \in 0..MaxLen }

InitDetect ==
    /\ \E self \in ExampleMSIDs \cup DrawnMSIDs : msids = [m \in {"a"} |-> self]
    /\ call = NoCall
    /\ outcome = "ok"
    /\ intervals = <<>>
    /\ InitStore(NoArchive)
    /\ ret = <<>>
    /\ msidset = NoSet

NextDetect ==
    \/ \E m \in DOMAIN msids, op \in ops \cup {"=>"}, val \in CmpVals :
           logical_intervals(m, op, val)
    \/ \E m \in DOMAIN msids : state_intervals(m)

SpecDetect == InitDetect /\ [][NextDetect]_vars

----------------------------------------------------------------------------
(* Attribute access and boolean indexing *)

\* getattr(self, colname)
GetAttr(self, colname) ==
    IF colname = "bads" THEN self.bads ELSE Arr(self[colname])

\* setattr(self, colname, a) for an array a
SetAttr(self, colname, a) ==
    IF colname = "bads" THEN [self EXCEPT !.bads = Arr(a)]
    ELSE [self EXCEPT ![colname] = a]

\* x[ok] for an attribute value x and a boolean array ok.  None is not
\* subscriptable.  A boolean index whose length differs from the array's is
\* an IndexError in current numpy; older numpy (legacy) took it as the
\* positions of its True entries and failed only if one was out of range.
Index(x, ok, legacy) ==
    IF x.isNone THEN [err |-> "TypeError", a |-> <<>>]
    ELSE IF Len(ok) = Len(x.a) THEN [err |-> "ok", a |-> Select(x.a, ok)]
    ELSE IF legacy /\ \A i \in 1..Len(ok) : ok[i] => i <= Len(x.a)
         THEN [err |-> "ok", a |-> Take(x.a, flatnonzero(ok))]
    ELSE [err |-> "IndexError", a |-> <<>>]

\* variant: only the first column is replaced
IndexColsFirst(self, colnames, ok, legacy) ==
    IF colnames = <<>> THEN [self |-> self, outcome |-> "ok"]
    ELSE LET r == Index(GetAttr(self, Head(colnames)), ok, legacy)
         IN IF r.err # "ok" THEN [self |-> self, outcome |-> r.err]
            ELSE [self |-> SetAttr(self, Head(colnames), r.a), outcome |-> "ok"]

\* for colname in colnames: setattr(self, colname, getattr(self, colname)[ok])
\* The columns before the one that raises have already been replaced.
RECURSIVE IndexCols(_, _, _, _)
IndexCols(self, colnames, ok, legacy) ==
    IF colnames = <<>> THEN [self |-> self, outcome |-> "ok"]
    ELSE LET r == Index(GetAttr(self, Head(colnames)), ok, legacy)
         IN IF r.err # "ok" THEN [self |-> self, outcome |-> r.err]
            ELSE IndexCols(SetAttr(self, Head(colnames), r.a),
                           Tail(colnames), ok, legacy)

----------------------------------------------------------------------------
(* MSID.filter_bad(bads=None) *)

NotBads(colname) == colname # "bads"

\* variant: the mask is inverted without the check for None
FilterBadNoCheck(self, bads, legacy) ==
    LET s1 == IF ~bads.isNone THEN [self EXCEPT !.bads = bads] ELSE self
    IN IF s1.bads.isNone THEN [self |-> s1, outcome |-> "TypeError"]
       ELSE LET r == IndexCols(s1, SelectSeq(s1.colnames, NotBads),
                               Not(s1.bads.a), legacy)
            IN IF r.outcome # "ok" THEN r
               ELSE [self |-> [r.self EXCEPT !.bads = None], outcome |-> "ok"]

FilterBad(self, bads, legacy) ==
    LET s1 == IF ~bads.isNone THEN [self EXCEPT !.bads = bads] ELSE self
    IN IF s1.bads.isNone THEN [self |-> s1, outcome |-> "ok"]
       ELSE IF any(s1.bads.a)
            THEN LET r == IndexCols(s1, SelectSeq(s1.colnames, NotBads),
                                    Not(s1.bads.a), legacy)
                 IN IF r.outcome # "ok" THEN r
                    ELSE [self |-> [r.self EXCEPT !.bads = None], outcome |-> "ok"]
       ELSE [self |-> [s1 EXCEPT !.bads = None], outcome |-> "ok"]

filter_bad(m) ==
    \E r \in {FilterBad(msids[m], None, legacy) : legacy \in BOOLEAN} :
        /\ msids' = [msids EXCEPT ![m] = r.self]
        /\ outcome' = r.outcome
        /\ call' = [NoCall EXCEPT !.name = "filter_bad", !.msid = m,
                                  !.masked = ~msids[m].bads.isNone]
        /\ UNCHANGED <<msidset, intervals, store, ret>>

\* filter_bad(bads) with a mask argument
filter_bad_with(m, bads) ==
    \E r \in {FilterBad(msids[m], Arr(bads), legacy) : legacy \in BOOLEAN} :
        /\ msids' = [msids EXCEPT ![m] = r.self]
        /\ outcome' = r.outcome
        /\ call' = [name |-> "filter_bad(bads)", msid |-> m, bads |-> bads]
        /\ UNCHANGED <<msidset, intervals, store, ret>>

----------------------------------------------------------------------------
(* MSID.filter_bad_times(start, stop, table) *)

\* the loop over the (start, stop) pairs of bad_times; start and stop are
\* given in seconds, for which DateTime(x).secs is x
RECURSIVE FilterBadTimes(_, _, _)
FilterBadTimes(self, bad_times, legacy) ==
    IF bad_times = <<>> THEN [self |-> self, outcome |-> "ok"]
    ELSE LET tstart == Head(bad_times)[1]
             tstop == Head(bad_times)[2]
             n == Len(self.times)
         IN IF tstart > tstop THEN [self |-> self, outcome |-> "ValueError"]
            ELSE IF n = 0 THEN [self |-> self, outcome |-> "IndexError"]  \* times[0]
            ELSE IF tstop < self.times[1] \/ tstart > self.times[n]
                 THEN FilterBadTimes(self, Tail(bad_times), legacy)
            ELSE LET ok == [i \in 1..n |->
                               self.times[i] < tstart \/ self.times[i] > tstop]
                     r == IndexCols(self, self.colnames, ok, legacy)
                 IN IF r.outcome # "ok" THEN r
                    ELSE FilterBadTimes(r.self, Tail(bad_times), legacy)

\* the module-level registry of bad times, filled by read_bad_times():
\* upper-case MSID name -> list of (start, stop)
msid_bad_times == [A |-> << <<T(2), T(2)>> >>]

\* the list of intervals filter_bad_times derives from its arguments
BadTimes(self, start, stop, table) ==
    IF ~table.isNone THEN [err |-> "ok", bad_times |-> table.a]
    ELSE IF start.isNone /\ stop.isNone
         THEN [err |-> "ok",
               bad_times |-> IF self.MSID \in DOMAIN msid_bad_times
                             THEN msid_bad_times[self.MSID] ELSE <<>>]
    ELSE IF start.isNone \/ stop.isNone
         THEN [err |-> "ValueError", bad_times |-> <<>>]
    ELSE [err |-> "ok", bad_times |-> << <<start.a, stop.a>> >>]

filter_bad_times(m, start, stop, table) ==
    LET bt == BadTimes(msids[m], start, stop, table)
    IN \E r \in IF bt.err # "ok" THEN {[self |-> msids[m], outcome |-> bt.err]}
               ELSE {FilterBadTimes(msids[m], bt.bad_times, legacy) :
                        legacy \in BOOLEAN} :
        /\ msids' = [msids EXCEPT ![m] = r.self]
        /\ outcome' = r.outcome
        /\ call' = [NoCall EXCEPT !.name = "filter_bad_times", !.msid = m,
                                  !.start = start, !.stop = stop, !.table = table,
                                  !.masked = ~msids[m].bads.isNone]
        /\ UNCHANGED <<msidset, intervals, store, ret>>

----------------------------------------------------------------------------
(* MSIDset.filter_bad() *)

\* the keys of the MSIDset in insertion order
Names == <<"a", "b">>

\* variant: the masks are combined with AND
AndInto(bads, x) ==
    IF Len(x) = Len(bads)
    THEN [err |-> "ok", a |-> [i \in 1..Len(bads) |-> bads[i] /\ x[i]]]
    ELSE IF Len(x) = 1
    THEN [err |-> "ok", a |-> [i \in 1..Len(bads) |-> bads[i] /\ x[1]]]
    ELSE [err |-> "ValueError", a |-> bads]

\* bads |= x: in-place OR; x must have the length of bads or length 1
OrInto(bads, x) ==
    IF Len(x) = Len(bads)
    THEN [err |-> "ok", a |-> [i \in 1..Len(bads) |-> bads[i] \/ x[i]]]
    ELSE IF Len(x) = 1
    THEN [err |-> "ok", a |-> [i \in 1..Len(bads) |-> bads[i] \/ x[1]]]
    ELSE [err |-> "ValueError", a |-> bads]

\* msids = [x for x in self.values() if x.content == content
\*                                      and x.bads is not None]
Masked(ms, content) ==
    LET Sel(m) == ms[m].content = content /\ ~ms[m].bads.isNone
    IN SelectSeq(Names, Sel)

\* variant: the accumulator is the member's own array
NoCopy(x) == x

\* x.copy(): a new array with the elements of x
Copy(x) == Arr(x.a)

\* the array x after an in-place change of its elements to a: the same object
InPlace(x, a) == [x EXCEPT !.a = a]

\* the lru cache after in-place changes of the array x: if x is the bads
\* array of a tuple the cache holds, the tuple holds the changed elements
WriteThrough(lr, x) ==
    IF "obj" \in DOMAIN x
    THEN [i \in 1..Len(lr) |->
             IF lr[i].key = x.obj THEN [lr[i] EXCEPT !.val.bads = x.a] ELSE lr[i]]
    ELSE lr

\* the union of the masks of the members listed in names: a copy of the
\* first mask, the others OR-ed into it in place
RECURSIVE UnionBads(_, _, _)
UnionBads(ms, names, bads) ==
    IF names = <<>> THEN [err |-> "ok", bads |-> bads]
    ELSE IF bads.isNone
         THEN UnionBads(ms, Tail(names), Copy(ms[Head(names)].bads))
    ELSE LET r == OrInto(bads.a, ms[Head(names)].bads.a)
         IN IF r.err # "ok" THEN [err |-> r.err, bads |-> bads]
            ELSE UnionBads(ms, Tail(names), InPlace(bads, r.a))

\* for msid in msids: msid.filter_bad(bads)
RECURSIVE FilterEach(_, _, _, _)
FilterEach(ms, names, bads, legacy) ==
    IF names = <<>> THEN [msids |-> ms, outcome |-> "ok"]
    ELSE LET m == Head(names)
             r == FilterBad(ms[m], bads, legacy)
             ms1 == [ms EXCEPT ![m] = r.self]
         IN IF r.outcome # "ok" THEN [msids |-> ms1, outcome |-> r.outcome]
            ELSE FilterEach(ms1, Tail(names), bads, legacy)

\* the loop over the content types, taken in the order given by contents;
\* lr is the lru cache, which holds the arrays of the tuples it returned
RECURSIVE SetFilterBad(_, _, _, _)
SetFilterBad(ms, lr, contents, legacy) ==
    IF contents = <<>> THEN [msids |-> ms, lru |-> lr, outcome |-> "ok"]
    ELSE LET names == Masked(ms, Head(contents))
             u == UnionBads(ms, names, None)
             lr1 == WriteThrough(lr, u.bads)
         IN IF u.err # "ok" THEN [msids |-> ms, lru |-> lr1, outcome |-> u.err]
            ELSE LET r == FilterEach(ms, names, u.bads, legacy)
                 IN IF r.outcome # "ok"
                    THEN [msids |-> r.msids, lru |-> lr1, outcome |-> r.outcome]
                    ELSE SetFilterBad(r.msids, lr1, Tail(contents), legacy)

\* the orders in which a set of content types may be iterated
Orders(S) ==
    {o \in [1..Cardinality(S) -> S] :
        \A i, j \in 1..Cardinality(S) : o[i] = o[j] => i = j}

MSIDset_filter_bad ==
    \E r \in {SetFilterBad(msids, lru, contents, legacy) :
                contents \in Orders({msids[m].content : m \in DOMAIN msids}),
                legacy \in BOOLEAN} :
        /\ msids' = r.msids
        /\ lru' = r.lru
        /\ outcome' = r.outcome
        /\ call' = [NoCall EXCEPT !.name = "MSIDset.filter_bad"]
        /\ UNCHANGED <<msidset, intervals, archive, memo, times_cache, CACHE,
                       unit_system, ret>>

----------------------------------------------------------------------------
(* MSIDset.interpolate(dt, start, stop, filter_bad) *)

\* the truth value of an argument: None and 0 are false
Truthy(x) == ~x.isNone /\ x.a # 0

\* numpy.arange(tstart, tstop, dt) for dt > 0
Arange(tstart, tstop, dt) ==
    LET n == IF tstop > tstart THEN (tstop - tstart + dt - 1) \div dt ELSE 0
    IN [k \in 1..n |-> tstart + (k - 1) * dt]

Abs(x) == IF x < 0 THEN -x ELSE x

\* variant: of two samples at the same distance the earlier one is taken
NearestIndexLower(xin, x) ==
    LET n == Len(xin)
        s == searchsorted(xin, x)
        c == IF s = 0 THEN 1 ELSE s
        i1 == IF c = n THEN n - 1 ELSE c
        i0 == IF i1 = 0 THEN n - 1 ELSE i1 - 1
    IN IF Abs(x - xin[i0 + 1]) <= Abs(x - xin[i1 + 1]) THEN i0 ELSE i1

\* Ska.Numpy.interpolate(arange(len(xin)), xin, [x], method='nearest')[0]:
\* i1 = searchsorted(xin, x), moved to 1 if it is 0 and then to len - 1 if
\* it is len; the index i1 - 1 (from the end if negative) if x is strictly
\* nearer to xin[i1 - 1] than to xin[i1], else i1.  Counted from 0.
NearestIndex(xin, x) ==
    LET n == Len(xin)
        s == searchsorted(xin, x)
        c == IF s = 0 THEN 1 ELSE s
        i1 == IF c = n THEN n - 1 ELSE c
        i0 == IF i1 = 0 THEN n - 1 ELSE i1 - 1
    IN IF Abs(x - xin[i0 + 1]) < Abs(x - xin[i1 + 1]) THEN i0 ELSE i1

\* colvals[indexes] for an integer index array: an index past the end of
\* colvals raises IndexError
TakeAttr(x, indexes) ==
    IF \A k \in 1..Len(indexes) : indexes[k] <= Len(x.a)
    THEN [err |-> "ok", a |-> Take(x.a, indexes)]
    ELSE [err |-> "IndexError", a |-> <<>>]

\* for colname in msid.colnames: if the attribute is not None, replace it
\* by attribute[indexes].  The columns before the one that raises have
\* already been replaced.
RECURSIVE TakeCols(_, _, _)
TakeCols(self, colnames, indexes) ==
    IF colnames = <<>> THEN [self |-> self, outcome |-> "ok"]
    ELSE IF GetAttr(self, Head(colnames)).isNone
         THEN TakeCols(self, Tail(colnames), indexes)
    ELSE IF TakeAttr(GetAttr(self, Head(colnames)), indexes).err # "ok"
         THEN [self |-> self, outcome |-> "IndexError"]
    ELSE TakeCols(SetAttr(self, Head(colnames),
                          TakeAttr(GetAttr(self, Head(colnames)), indexes).a),
                  Tail(colnames), indexes)

\* msid.times0 = msid.times; msid.times = self.times
WithTimes0(self, grid) ==
    [k \in DOMAIN self \cup {"times0"} |->
        IF k = "times0" THEN self.times
        ELSE IF k = "times" THEN grid ELSE self[k]]

\* the end of the loop body after the columns have been replaced, or the
\* error of the replacement
Aligned(r, grid) ==
    IF r.outcome # "ok" THEN r
    ELSE [self |-> WithTimes0(r.self, grid), outcome |-> "ok"]

\* the body of the loop for one member; indexing an empty times array
\* raises IndexError
InterpolateOne(self, grid, filter, legacy) ==
    LET f == IF filter THEN FilterBad(self, None, legacy)
             ELSE [self |-> self, outcome |-> "ok"]
        s1 == f.self
        indexes == [k \in 1..Len(grid) |-> NearestIndex(s1.times, grid[k]) + 1]
    IN IF f.outcome # "ok" THEN f
       ELSE IF s1.times = <<>> /\ grid # <<>>
            THEN [self |-> s1, outcome |-> "IndexError"]
       ELSE Aligned(TakeCols(s1, s1.colnames, indexes), grid)

\* for msid in self.values(): the members before the one that raises have
\* been interpolated
RECURSIVE InterpolateAll(_, _, _, _, _)
InterpolateAll(ms, names, grid, filter, legacy) ==
    IF names = <<>> THEN [msids |-> ms, outcome |-> "ok"]
    ELSE LET r == InterpolateOne(ms[Head(names)], grid, filter, legacy)
             ms1 == [ms EXCEPT ![Head(names)] = r.self]
         IN IF r.outcome # "ok" THEN [msids |-> ms1, outcome |-> r.outcome]
            ELSE InterpolateAll(ms1, Tail(names), grid, filter, legacy)

\* start and stop are given in seconds, for which DateTime(x).secs is x
MSIDset_interpolate(dt, start, stop, filter) ==
    LET tstart == IF Truthy(start) THEN start.a ELSE msidset.tstart
        tstop == IF Truthy(stop) THEN stop.a ELSE msidset.tstop
        grid == Arange(tstart, tstop, dt)
    IN \E r \in {InterpolateAll(msids, Names, grid, filter, legacy) :
                    legacy \in BOOLEAN} :
        /\ msidset' = [msidset EXCEPT !.times = Arr(grid)]
        /\ msids' = r.msids
        /\ outcome' = r.outcome
        /\ call' = [name |-> "MSIDset.interpolate", dt |-> dt, start |-> start,
                    stop |-> stop, filter |-> filter]
        /\ UNCHANGED <<intervals, store, ret>>

----------------------------------------------------------------------------
(* MSID.__init__(msid, start, stop, filter_bad) and MSIDset.__init__ *)

\* the bads array of a tuple held by the lru cache: the array and the key of
\* the entry whose object it is
CachedArr(a, key) == [isNone |-> FALSE, a |-> a, obj |-> key]

\* the state of the caches as a record
Caches == [memo |-> memo, times_cache |-> times_cache, lru |-> lru]

\* the outcome of a constructor that raised err
Raised(err, c, io) ==
    [outcome |-> err, self |-> <<>>, val |-> <<>>, caches |-> c, io |-> io]

\* the object with the attributes _get_data bound from the tuple val; with
\* CACHE on the arrays are those of the tuple the lru cache holds
Fetched(on, key, start, stop, val) ==
    NewMSID(key.name, key.content, val.times, val.vals,
            IF on THEN CachedArr(val.bads, <<key.content, start, stop, key.name>>)
            ELSE Arr(val.bads))

\* MSID.__init__ after _get_data has returned r or raised
Constructed(on, key, start, stop, filter, r) ==
    IF r.outcome # "ok"
    THEN Raised(r.outcome,
                [memo |-> r.memo, times_cache |-> r.times_cache, lru |-> r.lru],
                r.io)
    ELSE [outcome |-> "ok",
          self |-> IF filter
                   THEN FilterBad(Fetched(on, key, start, stop, r.val), None, FALSE).self
                   ELSE Fetched(on, key, start, stop, r.val),
          val |-> r.val,
          caches |-> [memo |-> r.memo, times_cache |-> r.times_cache,
                      lru |-> r.lru],
          io |-> r.io]

\* MSID.__init__ after msid_glob has returned g or raised
Resolved(arch, c, on, system, start, stop, filter, g) ==
    IF g.err # "ok" THEN Raised(g.err, c, <<>>)
    ELSE IF Len(g.MSIDs) > 1
         THEN Raised("ValueError: Multiple matches in Eng Archive", c, <<>>)
    ELSE Constructed(on, g.MSIDs[1], start, stop, filter,
                     GetData(arch, c.memo, c.times_cache, c.lru, on, system,
                             g.MSIDs[1].content, start, stop, g.MSIDs[1].name))

\* MSID(msid, start, stop, filter_bad=filter): the new object, or the exception
\* raised, with the caches as the call leaves them; start and stop are
\* given in seconds, for which DateTime(x).secs is x
MSIDInit(arch, c, on, system, msid, start, stop, filter) ==
    Resolved(arch, c, on, system, start, stop, filter, MsidGlob(arch.content, msid))

\* the effect of x = MSID(...) with the result r, x being bound to the name m
Bound(m, msid, start, stop, r) ==
    /\ outcome' = r.outcome
    /\ msids' = IF r.outcome # "ok" THEN msids
                ELSE [k \in DOMAIN msids \cup {m} |->
                         IF k = m THEN r.self ELSE msids[k]]
    /\ memo' = r.caches.memo
    /\ times_cache' = r.caches.times_cache
    /\ lru' = r.caches.lru
    /\ ret' = r.val
    /\ call' = ReadCall("MSID", "", start, stop, msid, r.io)
    /\ UNCHANGED <<msidset, intervals, archive, CACHE, unit_system>>

\* x = MSID(msid, start, stop, filter_bad=filter) bound to the name m
MSID_init(m, msid, start, stop, filter) ==
    Bound(m, msid, start, stop,
          MSIDInit(archive, Caches, CACHE, unit_system, msid, start, stop, filter))

----------------------------------------------------------------------------
(* msid_glob and the MSID constructor applied to drawn patterns *)

Digits == <<"0", "1", "2", "3", "4", "5", "6", "7", "8", "9">>
XNames == <<"X0", "X1", "X2", "X3", "X4", "X5", "X6", "X7", "X8", "X9">>

\* the keys of content: a parameter and a derived parameter of the same
\* name, names a glob can tell apart, and eleven names X0 .. X9, XA
GlobCatalog ==
    << Key("A", <<"A">>), Key("AB", <<"A", "B">>),
       Key("DP_A", <<"D", "P", "_", "A">>),
       Key("DP_AC", <<"D", "P", "_", "A", "C">>),
       Key("DP_B", <<"D", "P", "_", "B">>) >>
    \o [k \in 1..10 |-> Key(XNames[k], <<"X", Digits[k]>>)]
    \o << Key("XA", <<"X", "A">>) >>

\* two rows, the second flagged bad in the column of the first MSID
GlobArchive ==
    Archive(GlobCatalog, 2, {}, FALSE, FALSE, AllGood(2), <<FALSE, TRUE>>)

PatChars == {"a", "x", "*", "?"}

Patterns ==
    UNION {SeqsOf(PatChars, n) : n \in 1..MaxPat}
    \cup { <<"A">>, <<"b">>, <<"a", "b">>, <<"a", "c">>, <<"x", "[">>,
           <<"d", "p", "_", "a">>, <<"d", "p", "_", "*">>, <<"d", "p", "_", "b">> }

InitGlob ==
    /\ InitStore(GlobArchive)
    /\ msids = <<>>
    /\ call = NoCall
    /\ outcome = "ok"
    /\ intervals = <<>>
    /\ ret = <<>>
    /\ msidset = NoSet

NextGlob ==
    \/ \E msid \in Patterns : msid_glob(msid)
    \/ \E msid \in Patterns :
           /\ msids = <<>>
           /\ MSID_init("a", msid, RowTime(1), RowTime(2) + T(1), FALSE)

SpecGlob == InitGlob /\ [][NextGlob]_vars

----------------------------------------------------------------------------
(* The MSID constructor applied to archives with rows of bad time *)

\* archives of MaxRows rows with at most one row of bad time and one mask
\* of the first MSID, cut into files in every way
ReadArchives ==
    { Archive(TwoMSIDs, MaxRows, cuts, FALSE, FALSE, tq, aq)
        : cuts \in Cuts(MaxRows), tq \in Masks(MaxRows, 1),
          aq \in {AllGood(MaxRows), [k \in 1..MaxRows |-> k = 2]} }

\* (tstart, tstop) windows: over all rows, from the first row to the last
\* (which stop excludes), from after the first row on, before every row,
\* and on the second row alone
ReadWindows ==
    { <<T(0), RowTime(MaxRows) + T(1)>>, <<RowTime(1), RowTime(MaxRows)>>,
      <<RowTime(1) + T(1), RowTime(MaxRows) + T(1)>>, <<T(0), T(1)>>,
      <<RowTime(2), RowTime(2) + T(1)>> }

InitRead ==
    /\ \E arch \in ReadArchives : InitStore(arch)
    /\ msids = <<>>
    /\ call = NoCall
    /\ outcome = "ok"
    /\ intervals = <<>>
    /\ ret = <<>>
    /\ msidset = NoSet

NextRead ==
    \E w \in ReadWindows, msid \in {<<"a">>, <<"b">>} :
        /\ <<"g1", w[1], w[2]>> \in DOMAIN memo
              \/ Cardinality(DOMAIN memo) < MaxWindows
        /\ MSID_init("a", msid, w[1], w[2], FALSE)

SpecRead == InitRead /\ [][NextRead]_vars

----------------------------------------------------------------------------
(* Reads through the lru cache: scans over more keys than it holds *)

\* fetch.CACHE = on
set_CACHE(on) ==
    /\ CACHE' = on
    /\ call' = [NoCall EXCEPT !.name = "set_CACHE"]
    /\ UNCHANGED <<msidset, msids, outcome, intervals, archive, memo, times_cache, lru,
                   unit_system, ret>>

CacheArchive ==
    Archive(TwoMSIDs, 3, {1}, FALSE, FALSE, <<FALSE, TRUE, FALSE>>,
            <<FALSE, FALSE, TRUE>>)

\* the keys read: key j is the window from 0 s to j s of MSID A (j odd) or
\* MSID B (j even)
NKeys == LruMaxsize + MaxOver

KeyWindow(j) == <<T(0), T(j)>>
KeyPattern(j) == IF j % 2 = 1 THEN <<"a">> ELSE <<"b">>
KeyIndex(key) == key[3] \div 2

\* the cache holds its keys in the order of their numbers
InScanOrder(lr) ==
    \A i \in 1..(Len(lr) - 1) : KeyIndex(lr[i].key) < KeyIndex(lr[i + 1].key)

InitCache ==
    /\ InitStore(CacheArchive)
    /\ msids = <<>>
    /\ call = NoCall
    /\ outcome = "ok"
    /\ intervals = <<>>
    /\ ret = <<>>
    /\ msidset = NoSet

\* the toggle is set before the first read; the keys are read in the order
\* of their numbers, and while the cache is in that order any key read
\* before may be read again
NextCache ==
    \/ \E on \in BOOLEAN : memo = <<>> /\ set_CACHE(on)
    \/ \E j \in 1..NKeys :
          /\ j = Cardinality(DOMAIN memo) + 1
          /\ MSID_init("a", KeyPattern(j), KeyWindow(j)[1], KeyWindow(j)[2], FALSE)
    \/ \E j \in 1..NKeys :
          /\ j <= Cardinality(DOMAIN memo)
          /\ InScanOrder(lru)
          /\ MSID_init("a", KeyPattern(j), KeyWindow(j)[1], KeyWindow(j)[2], FALSE)

SpecCache == InitCache /\ [][NextCache]_vars

----------------------------------------------------------------------------
(* MSIDset.__init__(msids, start, stop, filter_bad) for msids = ['a', 'b'] *)

\* the outcome of a set constructor that raised err
SetRaised(err, caches) == [outcome |-> err, msids |-> <<>>, caches |-> caches]

\* if filter_bad: self.filter_bad(), with the result f
SetFiltered(caches, f) ==
    [outcome |-> f.outcome,
     msids |-> IF f.outcome = "ok" THEN f.msids ELSE <<>>,
     caches |-> [caches EXCEPT !.lru = f.lru]]

\* the set of the members a and b
SetOf(a, b) == [m \in {"a", "b"} |-> IF m = "a" THEN a ELSE b]

\* MSIDset.__init__ after the second member has been constructed
SecondRead(ra, rb, filter, contents, legacy) ==
    IF rb.outcome # "ok" THEN SetRaised(rb.outcome, rb.caches)
    ELSE IF ~filter
         THEN [outcome |-> "ok", msids |-> SetOf(ra.self, rb.self),
               caches |-> rb.caches]
    ELSE SetFiltered(rb.caches,
                     SetFilterBad(SetOf(ra.self, rb.self), rb.caches.lru,
                                  contents, legacy))

\* MSIDset.__init__ after the first member has been constructed
FirstRead(arch, on, system, start, stop, filter, contents, legacy, ra) ==
    IF ra.outcome # "ok" THEN SetRaised(ra.outcome, ra.caches)
    ELSE SecondRead(ra, MSIDInit(arch, ra.caches, on, system, <<"b">>,
                                 start, stop, FALSE),
                    filter, contents, legacy)

\* the set with the members 'a' and 'b' read in this order, or the
\* exception raised; the names are exact, so that msid_glob returns each as
\* it is given.  contents is the order in which filter_bad takes the
\* content types.
MSIDsetInit(arch, c, on, system, start, stop, filter, contents, legacy) ==
    IF MsidGlob(arch.content, <<"a">>).err # "ok"
    THEN SetRaised(MsidGlob(arch.content, <<"a">>).err, c)
    ELSE IF MsidGlob(arch.content, <<"b">>).err # "ok"
         THEN SetRaised(MsidGlob(arch.content, <<"b">>).err, c)
    ELSE FirstRead(arch, on, system, start, stop, filter, contents, legacy,
                   MSIDInit(arch, c, on, system, <<"a">>, start, stop, FALSE))

\* the effect of msids = MSIDset(...) with the result r
SetBound(start, stop, filter, r) ==
    /\ outcome' = r.outcome
    /\ msids' = IF r.outcome # "ok" THEN msids ELSE r.msids
    /\ msidset' = IF r.outcome # "ok" THEN msidset
                  ELSE [tstart |-> start, tstop |-> stop, times |-> None]
    /\ memo' = r.caches.memo
    /\ times_cache' = r.caches.times_cache
    /\ lru' = r.caches.lru
    /\ ret' = <<>>
    /\ call' = [name |-> "MSIDset", start |-> start, stop |-> stop,
                filter |-> filter]
    /\ UNCHANGED <<intervals, archive, CACHE, unit_system>>

\* msids = MSIDset(['a', 'b'], start, stop, filter_bad=filter)
MSIDset_init(start, stop, filter) ==
    \E legacy \in BOOLEAN :
        SetBound(start, stop, filter,
                 MSIDsetInit(archive, Caches, CACHE, unit_system, start, stop,
                             filter, <<"g1">>, legacy))

----------------------------------------------------------------------------
(* The filters applied to an MSIDset of two members *)

\* attributes of an MSID object fetched with stat: no mask, statistics columns
NewStatMSID(MSID, content, times, vals) ==
    [MSID |-> MSID, content |-> content, colnames |-> <<"times", "vals", "mins", "maxes">>,
     times |-> times, vals |-> vals, bads |-> None,
     mins |-> [i \in 1..Len(vals) |-> vals[i] - 1],
     maxes |-> [i \in 1..Len(vals) |-> vals[i] + 1]]

\* sample values that tell the members and the samples apart
ValsOf(k, n) == [i \in 1..n |-> 10 * k + i]

\* a time after every sample of the time bases
After == T(MaxSamples * (MaxSamples + 1) + 1)

\* (start, stop) arguments: an interval before all samples, on the first
\* sample, on the second, on both, from the second on, after all samples,
\* over everything, reversed, and the calls that leave one or both out
StartStops ==
    { <<Arr(start), Arr(stop)>> : <<start, stop>> \in
        { <<T(-1), T(-1)>>, <<T(0), T(0)>>, <<T(2), T(2)>>, <<T(0), T(2)>>,
          <<T(2), After>>, <<After, After>>, <<T(-1), After>>, <<T(2), T(0)>> } }
    \cup { <<None, None>>, <<Arr(T(0)), None>>, <<None, Arr(T(0))>> }

\* table arguments
Tables ==
    { Arr(<< <<T(0), T(0)>>, <<After, After>> >>),
      Arr(<< <<T(2), After>>, <<T(2), T(0)>> >>) }

\* the documented example: two members of one group with three samples,
\* one with the mask [false, true, false] and one without a mask
ExampleSet ==
    [m \in {"a", "b"} |->
        IF m = "a"
        THEN NewMSID("A", "g1", SubSeq(BaseOf("g1"), 1, 3), ValsOf(1, 3),
                     Arr(<<FALSE, TRUE, FALSE>>))
        ELSE NewMSID("B", "g1", SubSeq(BaseOf("g1"), 1, 3), ValsOf(2, 3), None)]

\* the documented example of interpolate: samples at 0, 5 and 20 s, in a
\* set constructed for the window from 0 to 20 s; one member has a mask
\* and one has statistics columns
AlignExample ==
    [m \in {"a", "b"} |->
        IF m = "a"
        THEN NewMSID("A", "g1", <<T(0), T(5), T(20)>>, ValsOf(1, 3),
                     Arr(<<FALSE, FALSE, FALSE>>))
        ELSE NewStatMSID("B", "g1", <<T(0), T(5), T(20)>>, ValsOf(2, 3))]

\* the steps of the common time sequence
Steps == {T(1), T(10)}

\* start and stop arguments of interpolate
AlignStarts == {None, Arr(T(0)), Arr(T(1))}
AlignStops == {None, Arr(T(3))}

InitAlign ==
    /\ \/ msids = AlignExample /\ msidset = [NoSet EXCEPT !.tstop = T(20)]
       \/ /\ \E n \in 0..MaxSamples, cb \in {"g1", "g2"}, stat \in BOOLEAN :
             IF stat
             THEN msids = [m \in {"a", "b"} |->
                      IF m = "a"
                      THEN NewStatMSID("A", "g1", SubSeq(BaseOf("g1"), 1, n), ValsOf(1, n))
                      ELSE NewStatMSID("B", cb, SubSeq(BaseOf(cb), 1, n), ValsOf(2, n))]
             ELSE \E ba, bb \in {None} \cup {Arr(x) : x \in Masks(n, MaxSetBad)} :
                  msids = [m \in {"a", "b"} |->
                      IF m = "a"
                      THEN NewMSID("A", "g1", SubSeq(BaseOf("g1"), 1, n), ValsOf(1, n), ba)
                      ELSE NewMSID("B", cb, SubSeq(BaseOf(cb), 1, n), ValsOf(2, n), bb)]
          /\ \E t \in {T(0), T(1)} :
                msidset = [NoSet EXCEPT !.tstart = t, !.tstop = After]
    /\ call = NoCall
    /\ outcome = "ok"
    /\ intervals = <<>>
    /\ InitStore(NoArchive)
    /\ ret = <<>>

\* a set is interpolated once
NextAlign ==
    \E dt \in Steps, start \in AlignStarts, stop \in AlignStops, filter \in BOOLEAN :
        /\ msidset.times.isNone
        /\ MSIDset_interpolate(dt, start, stop, filter)

SpecAlign == InitAlign /\ [][NextAlign]_vars

Init ==
    /\ \/ msids = ExampleSet
       \/ \E n \in 0..MaxSamples, cb \in {"g1", "g2"}, stat \in BOOLEAN :
          IF stat
          THEN msids = [m \in {"a", "b"} |->
                   IF m = "a"
                   THEN NewStatMSID("A", "g1", SubSeq(BaseOf("g1"), 1, n), ValsOf(1, n))
                   ELSE NewStatMSID("B", cb, SubSeq(BaseOf(cb), 1, n), ValsOf(2, n))]
          ELSE \E ba, bb \in {None} \cup {Arr(x) : x \in Masks(n, MaxSetBad)} :
               msids = [m \in {"a", "b"} |->
                   IF m = "a"
                   THEN NewMSID("A", "g1", SubSeq(BaseOf("g1"), 1, n), ValsOf(1, n), ba)
                   ELSE NewMSID("B", cb, SubSeq(BaseOf(cb), 1, n), ValsOf(2, n), bb)]
    /\ call = NoCall
    /\ outcome = "ok"
    /\ intervals = <<>>
    /\ InitStore(NoArchive)
    /\ ret = <<>>
    /\ msidset = NoSet

Next ==
    \/ \E m \in DOMAIN msids : filter_bad(m)
    \/ \E m \in DOMAIN msids, ss \in StartStops :
           filter_bad_times(m, ss[1], ss[2], None)
    \/ \E m \in DOMAIN msids, table \in Tables :
           filter_bad_times(m, None, None, table)
    \/ MSIDset_filter_bad

Spec == Init /\ [][Next]_vars

----------------------------------------------------------------------------
(* Filters and interpolation applied to objects read from an archive *)

\* four rows in two files; the second row is flagged bad in the column of
\* B and the fourth row has a bad time
OwnArchive ==
    Archive(<< Key("B", <<"B">>), Key("A", <<"A">>) >>, 4, {2}, FALSE, FALSE,
            <<FALSE, FALSE, FALSE, TRUE>>, <<FALSE, TRUE, FALSE, FALSE>>)

OwnWindows == { <<T(1), RowTime(4)>>, <<RowTime(2), RowTime(4)>> }

InitOwn ==
    /\ InitStore(OwnArchive)
    /\ msids = <<>>
    /\ call = NoCall
    /\ outcome = "ok"
    /\ intervals = <<>>
    /\ ret = <<>>
    /\ msidset = NoSet

\* the toggle is set before the first read; a set is constructed, filtered
\* and interpolated once, and its members are read again
NextOwn ==
    \/ \E on \in BOOLEAN : memo = <<>> /\ set_CACHE(on)
    \/ \E filter \in BOOLEAN :
          msids = <<>> /\ MSIDset_init(T(1), RowTime(4), filter)
    \/ \E m \in DOMAIN msids : filter_bad(m)
    \/ \E m \in DOMAIN msids :
          filter_bad_times(m, Arr(RowTime(1)), Arr(RowTime(1)), None)
    \/ msids # <<>> /\ MSIDset_filter_bad
    \/ \E filter \in BOOLEAN :
          /\ msids # <<>> /\ msidset.times.isNone
          /\ MSIDset_interpolate(T(3), None, None, filter)
    \/ \E w \in OwnWindows, msid \in {<<"a">>, <<"b">>} :
          msids # <<>> /\ MSID_init("a", msid, w[1], w[2], FALSE)

SpecOwn == InitOwn /\ [][NextOwn]_vars

----------------------------------------------------------------------------
(* Vocabulary of the detector claims, stated on the MSID's own attributes *)

\* the MSID the detectors are applied to
dself == msids["a"]

\* positions of the samples not flagged bad, ascending
GoodIdx(self) ==
    IF self.bads.isNone THEN [i \in 1..Len(self.vals) |-> i]
    ELSE flatnonzero([i \in 1..Len(self.vals) |-> ~self.bads.a[i]])

NGood(self) == Len(GoodIdx(self))

\* value and time of the i-th good sample
gv(self, i) == self.vals[GoodIdx(self)[i]]
gt(self, i) == self.times[GoodIdx(self)[i]]

\* the comparison of the last call holds at the i-th good sample
Holds(i) == Apply(call.op, gv(dself, i), call.val)

LogicalReturned ==
    call.name = "logical_intervals" /\ call.op \in ops /\ outcome = "ok"

\* maximal runs s..e of predicate-true good samples with a predicate-false
\* good sample right before and right after
CompleteRuns ==
    {r \in (1..NGood(dself)) \X (1..NGood(dself)) :
        /\ r[1] <= r[2]
        /\ \A i \in r[1]..r[2] : Holds(i)
        /\ r[1] > 1 /\ ~Holds(r[1] - 1)
        /\ r[2] < NGood(dself) /\ ~Holds(r[2] + 1)}

IsExample1(self) ==
    /\ self.vals = <<0, 0, 1, 1, 0, 1>>
    /\ self.times = <<T(0), T(1), T(2), T(3), T(4), T(5)>>

IsExample2(self) ==
    /\ self.vals = <<5, 5, 7, 7, 7, 2>>
    /\ self.times = <<T(0), T(10), T(20), T(30), T(40), T(50)>>

(* C1: every interval logical_intervals reports starts at the time of a     *)
(* sample where the predicate is false and true at the next sample, and     *)
(* stops at the time of a sample where it is true and false at the next;    *)
(* on vals=[0,0,1,1,0,1], times=[0..5], '==', 1 it reports exactly the one  *)
(* interval tstart=1, tstop=3.                                              *)
C1_TransitionTimes ==
    LogicalReturned =>
        /\ \A k \in 1..Len(intervals) :
              /\ \E i \in 1..(NGood(dself) - 1) :
                    /\ ~Holds(i) /\ Holds(i + 1)
                    /\ intervals[k].tstart = gt(dself, i)
              /\ \E j \in 1..(NGood(dself) - 1) :
                    /\ Holds(j) /\ ~Holds(j + 1)
                    /\ intervals[k].tstop = gt(dself, j)
        /\ (IsExample1(dself) /\ call.op = "==" /\ call.val = 1) =>
              intervals = << [tstart |-> T(1), tstop |-> T(3), duration |-> T(2)] >>

C1_Witness ==
    /\ LogicalReturned /\ IsExample1(dself)
    /\ call.op = "==" /\ call.val = 1 /\ Len(intervals) = 1

StateCalled == call.name = "state_intervals"

(* C3 as stated: on vals=[5,5,7,7,7,2], times=[0,10,..,50] state_intervals  *)
(* gives three runs with interior boundaries 5 and 35 and outer boundaries  *)
(* -5 and 55.                                                               *)
C3_AsStated ==
    (StateCalled /\ IsExample2(dself)) =>
        /\ outcome = "ok" /\ Len(intervals) = 3
        /\ intervals[1].tstart = T(-5) /\ intervals[1].tstop = T(5)
        /\ intervals[2].tstart = T(5) /\ intervals[2].tstop = T(35)
        /\ intervals[3].tstart = T(35) /\ intervals[3].tstop = T(55)

(* C3 amended: on that input state_intervals gives three runs with values   *)
(* 5, 7, 2, interior boundaries at the midpoints 15 and 45 and outer        *)
(* boundaries -5 and 55.                                                    *)
C3_ExampleRuns ==
    (StateCalled /\ IsExample2(dself)) =>
        /\ outcome = "ok" /\ Len(intervals) = 3
        /\ intervals[1].tstart = T(-5) /\ intervals[1].tstop = T(15)
        /\ intervals[2].tstart = T(15) /\ intervals[2].tstop = T(45)
        /\ intervals[3].tstart = T(45) /\ intervals[3].tstop = T(55)
        /\ <<intervals[1].val, intervals[2].val, intervals[3].val>> = <<5, 7, 2>>

C3_Witness ==
    StateCalled /\ IsExample2(dself) /\ outcome = "ok" /\ Len(intervals) = 3

\* positions i of good samples whose value differs from the next good one
Changes == {i \in 1..(NGood(dself) - 1) : gv(dself, i) # gv(dself, i + 1)}

\* the k-th smallest element of a finite set of integers
Kth(S, k) == CHOOSE x \in S : Cardinality({y \in S : y <= x}) = k

(* C4: with at least two good samples state_intervals returns one row per   *)
(* maximal run of identical consecutive good values, in order, val being    *)
(* the run's value; the boundary after run k is the midpoint of the two     *)
(* samples straddling the change, the first tstart is times[0] minus half   *)
(* the first spacing, the last tstop is times[-1] plus half the last        *)
(* spacing; rows are contiguous, adjacent rows differ in val, and           *)
(* duration = tstop - tstart.                                               *)
C4_StateRuns ==
    (StateCalled /\ NGood(dself) >= 2) =>
        LET n == NGood(dself)
            r == Cardinality(Changes) + 1
        IN /\ outcome = "ok"
           /\ Len(intervals) = r
           /\ \A k \in 1..(r - 1) :
                 LET c == Kth(Changes, k)
                 IN /\ intervals[k].val = gv(dself, c)
                    /\ 2 * intervals[k].tstop = gt(dself, c) + gt(dself, c + 1)
           /\ intervals[r].val = gv(dself, n)
           /\ 2 * intervals[1].tstart =
                 2 * gt(dself, 1) - (gt(dself, 2) - gt(dself, 1))
           /\ 2 * intervals[r].tstop =
                 2 * gt(dself, n) + (gt(dself, n) - gt(dself, n - 1))
           /\ \A k \in 1..(r - 1) :
                 /\ intervals[k].tstop = intervals[k + 1].tstart
                 /\ intervals[k].val # intervals[k + 1].val
           /\ \A k \in 1..r :
                 intervals[k].duration = intervals[k].tstop - intervals[k].tstart

\* three runs found among good samples of a series that has a bad sample
\* and irregular spacing
C4_Witness ==
    /\ StateCalled /\ outcome = "ok" /\ Len(intervals) = 3
    /\ NGood(dself) < Len(dself.vals)
    /\ dself.times[2] - dself.times[1] # dself.times[3] - dself.times[2]

(* C5: state_intervals raises the insufficient-data ValueError whenever     *)
(* fewer than two good samples remain after bad-value exclusion.            *)
C5_InsufficientData ==
    (StateCalled /\ NGood(dself) < 2) => outcome = "ValueError"

----------------------------------------------------------------------------
(* Vocabulary of the filter claims *)

\* the columns of colnames other than the mask
DataCols(self) == {self.colnames[i] : i \in 1..Len(self.colnames)} \ {"bads"}

\* the entries of column a at the positions where keep holds, in order
RECURSIVE Kept(_, _)
Kept(a, keep) ==
    IF a = <<>> THEN <<>>
    ELSE IF Head(keep) THEN <<Head(a)>> \o Kept(Tail(a), Tail(keep))
    ELSE Kept(Tail(a), Tail(keep))

\* a Series as the data model has it: every column of colnames, and the mask
\* if there is one, has the length of times
LockStep(self) ==
    /\ \A c \in DataCols(self) : Len(self[c]) = Len(self.times)
    /\ ~self.bads.isNone => Len(self.bads.a) = Len(self.times)

FilterBadStep(m) == call'.name = "filter_bad" /\ call'.msid = m

(* C6: filter_bad() without a mask argument on a Series whose mask is the   *)
(* sentinel changes no attribute and leaves the mask the sentinel.          *)
C6_SentinelNoOp ==
    [][\A m \in DOMAIN msids :
          (FilterBadStep(m) /\ msids[m].bads.isNone) =>
              (msids'[m] = msids[m] /\ outcome' = "ok")]_vars

C6_Witness ==
    /\ call.name = "filter_bad" /\ ~call.masked /\ outcome = "ok"
    /\ msids[call.msid].bads.isNone
    /\ Len(msids[call.msid].times) >= 2

(* C7: filter_bad() on a Series with a boolean mask (of the length of its   *)
(* columns) leaves the mask the sentinel, len(vals) = len(times), and in    *)
(* every column of colnames other than the mask exactly the samples whose   *)
(* mask entry was false, in their order; a second filter_bad() changes      *)
(* nothing.                                                                 *)
C7_FilterBadRemovesMasked ==
    [][\A m \in DOMAIN msids :
          (FilterBadStep(m) /\ ~msids[m].bads.isNone /\ LockStep(msids[m])) =>
              /\ outcome' = "ok"
              /\ msids'[m].bads = None
              /\ Len(msids'[m].vals) = Len(msids'[m].times)
              /\ \A c \in DataCols(msids[m]) :
                    msids'[m][c] = Kept(msids[m][c], Not(msids[m].bads.a))
              /\ msids'[m].colnames = msids[m].colnames
              /\ \A legacy \in BOOLEAN :
                    FilterBad(msids'[m], None, legacy) =
                        [self |-> msids'[m], outcome |-> "ok"]]_vars

\* filter_bad() has removed the middle sample of a three-sample Series
C7_Witness ==
    /\ call.name = "filter_bad" /\ call.masked /\ outcome = "ok"
    /\ msids[call.msid].bads.isNone
    /\ Len(msids[call.msid].times) = 2
    /\ msids[call.msid].vals[2] - msids[call.msid].vals[1] = 2

SetFilterBadStep == call'.name = "MSIDset.filter_bad"

\* the two members share a group, "a" has mask [false, true, false] and "b"
\* has three samples and no mask
IsExample3(ms) ==
    /\ ms["a"].content = ms["b"].content
    /\ ms["a"].bads = Arr(<<FALSE, TRUE, FALSE>>) /\ LockStep(ms["a"])
    /\ ms["b"].bads = None /\ Len(ms["b"].times) = 3 /\ LockStep(ms["b"])

MaskedOf(ms, content) ==
    {m \in DOMAIN ms : ms[m].content = content /\ ~ms[m].bads.isNone}

\* every mask has the length of its Series' columns and of the other masks
\* of its group
GroupsLockStep(ms) ==
    /\ \A m \in DOMAIN ms : LockStep(ms[m])
    /\ \A m, k \in DOMAIN ms :
          (ms[m].content = ms[k].content /\ ~ms[m].bads.isNone /\ ~ms[k].bads.isNone)
              => Len(ms[m].bads.a) = Len(ms[k].bads.a)

\* sample i is not flagged bad by any masked member of the content type
GoodForAll(ms, content) ==
    [i \in 1..Len(ms[CHOOSE m \in MaskedOf(ms, content) : TRUE].bads.a) |->
        \A m \in MaskedOf(ms, content) : ~ms[m].bads.a[i]]

BadTimesStep(m) ==
    /\ call'.name = "filter_bad_times" /\ call'.msid = m
    /\ call'.table.isNone /\ ~call'.start.isNone /\ ~call'.stop.isNone
    /\ call'.start.a <= call'.stop.a

\* the interval overlaps the time range of the Series
Overlaps(self, start, stop) ==
    /\ Len(self.times) > 0
    /\ ~(stop < self.times[1] \/ start > self.times[Len(self.times)])

\* sample i lies outside [start, stop]
Outside(self, start, stop) ==
    [i \in 1..Len(self.times) |-> self.times[i] < start \/ self.times[i] > stop]

(* C9: filter_bad_times with an interval that overlaps the time range       *)
(* succeeds with a boolean mask and with the sentinel mask alike, and keeps *)
(* in every attribute of colnames exactly the samples with t < start or     *)
(* t > stop, in order.                                                      *)
C9_BadTimesEitherMaskState ==
    [][\A m \in DOMAIN msids :
          (/\ BadTimesStep(m) /\ LockStep(msids[m])
           /\ Overlaps(msids[m], call'.start.a, call'.stop.a)) =>
              /\ outcome' = "ok"
              /\ \A c \in DataCols(msids[m]) :
                    msids'[m][c] =
                        Kept(msids[m][c],
                             Outside(msids[m], call'.start.a, call'.stop.a))
              /\ IF msids[m].bads.isNone THEN msids'[m].bads = None
                 ELSE msids'[m].bads =
                        Arr(Kept(msids[m].bads.a,
                                 Outside(msids[m], call'.start.a, call'.stop.a)))]_vars

(* C10: filter_bad_times with an interval start <= stop that does not       *)
(* overlap the current time range of the Series returns without error and   *)
(* changes no attribute, also when the Series has no samples left.          *)
C10_NoOverlapNoOp ==
    [][\A m \in DOMAIN msids :
          (/\ BadTimesStep(m)
           /\ ~Overlaps(msids[m], call'.start.a, call'.stop.a)) =>
              (outcome' = "ok" /\ msids'[m] = msids[m])]_vars

\* filter_bad_times was called on m with any of its three argument forms
AnyBadTimesStep(m) == call'.name = "filter_bad_times" /\ call'.msid = m

\* the list the call derives from its arguments holds an interval start > stop
HasReversed(bad_times) ==
    \E k \in 1..Len(bad_times) : bad_times[k][1] > bad_times[k][2]

(* C11: filter_bad_times raises the reversed-interval ValueError whenever    *)
(* the list of intervals it derives from its arguments (table, start/stop   *)
(* or registry entry) holds an interval with start > stop, at any position  *)
(* of the list and whether or not the intervals overlap the Series.         *)
C11_ReversedIntervalFails ==
    [][\A m \in DOMAIN msids :
          LET bt == BadTimes(msids[m], call'.start, call'.stop, call'.table)
          IN (AnyBadTimesStep(m) /\ bt.err = "ok" /\ HasReversed(bt.bad_times))
                 => outcome' = "ValueError"]_vars

----------------------------------------------------------------------------
(* Vocabulary of the archive claims *)

\* the archfiles table of content type g1
files == archive.archfiles["g1"]

LocateCalled == call.name = "get_interval"

\* the file with the latest filetime (file start time) strictly below t, or
\* the chronologically first file if there is none
LowerFile(t) ==
    LET S == {k \in 1..Len(files) : files[k].filetime < t}
    IN IF S = {} THEN 1 ELSE CHOOSE k \in S : \A j \in S : j <= k

\* the file with the earliest tstop (file stop time) strictly above t, or
\* the chronologically last file if there is none
UpperFileByStop(t) ==
    LET S == {k \in 1..Len(files) : files[k].tstop > t}
    IN IF S = {} THEN Len(files) ELSE CHOOSE k \in S : \A j \in S : k <= j

\* the file with the earliest filetime (file start time) strictly above t,
\* or the chronologically last file if there is none
UpperFileByStart(t) ==
    LET S == {k \in 1..Len(files) : files[k].filetime > t}
    IN IF S = {} THEN Len(files) ELSE CHOOSE k \in S : \A j \in S : k <= j

TimeOfRow(k) == archive.h5["g1"].time.data[k]

NRows == Len(archive.h5["g1"].time.data)

(* C13: on a sorted, non-overlapping, non-empty archfiles table and a       *)
(* window tstart <= tstop, the returned row range contains every row whose  *)
(* time lies in [tstart, tstop); a window entirely before the first file    *)
(* or entirely after the last one returns the rows of that extreme file.    *)
C13_OverCovers ==
    (LocateCalled /\ Len(files) > 0 /\ call.tstart <= call.tstop) =>
        /\ outcome = "ok"
        /\ \A k \in 1..NRows :
              (call.tstart <= TimeOfRow(k) /\ TimeOfRow(k) < call.tstop)
                  => (ret[1] <= k - 1 /\ k - 1 < ret[2])
        /\ call.tstop < files[1].filetime =>
              ret = <<files[1].rowstart, files[1].rowstop>>
        /\ call.tstart > files[Len(files)].tstop =>
              ret = <<files[Len(files)].rowstart, files[Len(files)].rowstop>>

\* a window after the last of two files returned the rows of the last file
C13_Witness ==
    /\ LocateCalled /\ outcome = "ok" /\ Len(files) = 2
    /\ call.tstart <= call.tstop /\ call.tstart > files[2].tstop
    /\ ret = <<files[2].rowstart, files[2].rowstop>>

\* the exceptions fetch.py raises itself
DedicatedErrors == {"ValueError"}

(* C14: get_interval fails with a dedicated error when the archfiles table  *)
(* has no entries, and returns without error for every window on a          *)
(* non-empty table, also for one that lies outside it.                      *)
C14_EmptyArchiveError ==
    LocateCalled =>
        IF Len(files) = 0 THEN outcome \in DedicatedErrors ELSE outcome = "ok"

----------------------------------------------------------------------------
(* Vocabulary of the name resolution claim *)

\* the keys of content whose name is exactly s, and those the glob s matches
NamedExactly(s) ==
    {k \in 1..Len(archive.content) : archive.content[k].chars = s}
NamedLike(s) ==
    {k \in 1..Len(archive.content) : fnmatch(archive.content[k].chars, s)}

DPrefixed(s) == <<"D", "P", "_">> \o s

\* the stage that resolves pattern s (upper case): 1 the exact name, 2 the
\* exact name with the prefix DP_, 3 the glob, 4 the glob with the prefix,
\* 0 none
Stage(s) ==
    IF NamedExactly(s) # {} THEN 1
    ELSE IF NamedExactly(DPrefixed(s)) # {} THEN 2
    ELSE IF NamedLike(s) # {} THEN 3
    ELSE IF NamedLike(DPrefixed(s)) # {} THEN 4
    ELSE 0

\* the keys the winning stage matches
StageMatches(s) ==
    CASE Stage(s) = 1 -> NamedExactly(s)
      [] Stage(s) = 2 -> NamedExactly(DPrefixed(s))
      [] Stage(s) = 3 -> NamedLike(s)
      [] Stage(s) = 4 -> NamedLike(DPrefixed(s))
      [] OTHER -> {}

NotInArchive == "ValueError: MSID is not in Eng Archive"
TooManyMatches == "ValueError: MSID spec matches more than MAX_GLOB_MATCHES MSIDs"
MultipleMatches == "ValueError: Multiple matches in Eng Archive"

\* what the resolution of pattern s fails with, or "ok"
Resolution(s) ==
    IF Stage(s) = 0 THEN NotInArchive
    ELSE IF Stage(s) >= 3 /\ Cardinality(StageMatches(s)) > MAX_GLOB_MATCHES
         THEN TooManyMatches
    ELSE "ok"

(* C18: msid_glob resolves the upper-cased pattern by the first stage that  *)
(* matches, in the order exact name, exact name with DP_ prepended, glob    *)
(* (without, then with the prefix), and returns exactly that stage's        *)
(* matches; it raises the not-in-archive error if no stage matches and the  *)
(* too-many-matches error if the glob stage that matches gives more than    *)
(* MAX_GLOB_MATCHES names; MSID(pattern) raises the multiple-matches error  *)
(* if the pattern resolves to more than one name and else is the MSID of    *)
(* the one name.                                                            *)
C18_ResolutionOrder ==
    LET s == Upper(call.msid)
    IN /\ call.name = "msid_glob" =>
             /\ outcome = Resolution(s)
             /\ outcome = "ok" =>
                   /\ {ret.MSIDs[k].name : k \in 1..Len(ret.MSIDs)} =
                          {archive.content[k].name : k \in StageMatches(s)}
                   /\ Len(ret.MSIDs) = Cardinality(StageMatches(s))
                   /\ Len(ret.msids) = Len(ret.MSIDs)
       /\ call.name = "MSID" =>
             IF Resolution(s) # "ok" THEN outcome = Resolution(s)
             ELSE IF Cardinality(StageMatches(s)) > 1 THEN outcome = MultipleMatches
             ELSE /\ outcome = "ok"
                  /\ \A k \in StageMatches(s) :
                        msids["a"].MSID = archive.content[k].name

\* the pattern 'a' names both A and DP_A and msid_glob returned A
C18_Witness ==
    /\ call.name = "msid_glob" /\ call.msid = <<"a">> /\ outcome = "ok"
    /\ NamedExactly(DPrefixed(<<"A">>)) # {}
    /\ Len(ret.MSIDs) = 1 /\ ret.MSIDs[1].name = "A"

----------------------------------------------------------------------------
(* Vocabulary of the reader claims *)

ReadReturned == call.name = "MSID" /\ outcome = "ok"

TimeIsBad(k) == archive.h5["g1"].time.quality[k]

\* the rows of good time inside the window [tstart, tstop)
RowsInWindow(tstart, tstop) ==
    {k \in 1..NRows : ~TimeIsBad(k) /\ tstart <= TimeOfRow(k) /\ TimeOfRow(k) < tstop}

ColumnOf(self) == archive.h5["g1"].cols[self.MSID]

(* C15: the vals, times and bads _get_msid_data returns have equal length   *)
(* and entry k of each is of the same row of the archive; the rows are      *)
(* exactly the rows of good time with tstart <= t < tstop, in row order,    *)
(* so no row of bad time is among them and times is strictly increasing,    *)
(* for every cut of the rows into files and whether the times were decoded  *)
(* or taken from times_cache.                                               *)
C15_AlignedWindow ==
    ReadReturned =>
        LET R == RowsInWindow(call.tstart, call.tstop)
            col == ColumnOf(msids["a"])
        IN /\ Len(ret.vals) = Cardinality(R)
           /\ Len(ret.times) = Cardinality(R)
           /\ Len(ret.bads) = Cardinality(R)
           /\ \A i \in 1..Cardinality(R) :
                 /\ ret.times[i] = TimeOfRow(Kth(R, i))
                 /\ ret.vals[i] = col.data[Kth(R, i)]
                 /\ ret.bads[i] = col.quality[Kth(R, i)]
           /\ \A i \in 1..(Len(ret.times) - 1) : ret.times[i] < ret.times[i + 1]
           /\ ret.colnames = <<"times", "vals", "bads">>

\* a read served from times_cache that returned two rows around a row of
\* bad time, from an archive cut into two files
C15_Witness ==
    /\ ReadReturned
    /\ ~\E i \in 1..Len(call.io) : call.io[i] = "time"
    /\ Len(ret.times) = 2
    /\ TimeIsBad(2)
    /\ Len(files) = 2

\* the rows of the row range get_interval gives for the window
RowsOfSlice(c, key) == {k \in 1..NRows : c[key][1] < k /\ k <= c[key][2]}

ReadStep == call'.name = "MSID" /\ outcome' = "ok"

ReadsTime(io) == \E i \in 1..Len(io) : io[i] = "time"

(* C20: a read decodes the TIME column unless its (content, tstart, tstop)  *)
(* equals the key of times_cache exactly; a read that decodes it replaces   *)
(* key, val, ok and all_ok together by the key, the good times, the mask    *)
(* and the flag of its own row range, and a read that does not leaves       *)
(* times_cache as it is; so times_cache holds the last miss.                *)
C20_OneSlot ==
    [][ ReadStep =>
          LET key == <<"g1", call'.tstart, call'.tstop>>
              S == RowsOfSlice(memo', key)
              G == {k \in S : ~TimeIsBad(k)}
          IN /\ ReadsTime(call'.io) <=> times_cache.key # Arr(key)
             /\ ~ReadsTime(call'.io) => times_cache' = times_cache
             /\ times_cache'.key = Arr(key)
             /\ ReadsTime(call'.io) =>
                   /\ Len(times_cache'.val) = Cardinality(G)
                   /\ \A i \in 1..Cardinality(G) :
                         times_cache'.val[i] = TimeOfRow(Kth(G, i))
                   /\ Len(times_cache'.ok) = Cardinality(S)
                   /\ \A i \in 1..Cardinality(S) :
                         times_cache'.ok[i] = ~TimeIsBad(Kth(S, i))
                   /\ times_cache'.all_ok = (G = S) ]_vars

\* the MSID B read without decoding the TIME column, after a read of another
\* window had been made
C20_Witness ==
    /\ ReadReturned
    /\ msids["a"].MSID = "B"
    /\ ~ReadsTime(call.io)
    /\ Cardinality(DOMAIN memo) = 2

----------------------------------------------------------------------------
(* Vocabulary of the result cache claim *)

\* the (content, tstart, tstop, msid) of the read a step makes
ReadKey == <<"g1", call'.tstart, call'.tstop, msids'["a"].MSID>>

Held(lr, key) == {i \in 1..Len(lr) : lr[i].key = key}

Without(lr, i) == SubSeq(lr, 1, i - 1) \o SubSeq(lr, i + 1, Len(lr))

(* C16: with CACHE on the cache of read results holds at most LruMaxsize    *)
(* entries with distinct keys, in the order of their last use; a read whose *)
(* key is held reads no storage, returns the tuple held and makes the key   *)
(* the most recently used; a read whose key is not held calls the reader    *)
(* and stores the result as the most recently used entry, the least         *)
(* recently used entry being dropped exactly when LruMaxsize were held.     *)
C16_BoundedLru ==
    [][ (ReadStep /\ CACHE) =>
          /\ Len(lru') <= LruMaxsize
          /\ \A i, j \in 1..Len(lru') : lru'[i].key = lru'[j].key => i = j
          /\ \A i \in Held(lru, ReadKey) :
                /\ call'.io = <<>>
                /\ ret' = lru[i].val
                /\ lru' = Append(Without(lru, i), lru[i])
          /\ Held(lru, ReadKey) = {} =>
                /\ call'.io # <<>>
                /\ lru' = Append(IF Len(lru) = LruMaxsize THEN Tail(lru) ELSE lru,
                                 [key |-> ReadKey, val |-> ret']) ]_vars

\* a read of a key not held, after which the cache is full, no longer holds
\* the first key read and holds the key just read as the last
C16_Witness ==
    /\ ReadReturned /\ CACHE
    /\ call.io # <<>>
    /\ Len(lru) = LruMaxsize
    /\ \A i \in 1..Len(lru) : KeyIndex(lru[i].key) # 1
    /\ KeyIndex(lru[Len(lru)].key) = LruMaxsize + 1

----------------------------------------------------------------------------
(* Vocabulary of the alignment claim *)

AlignStep == call'.name = "MSIDset.interpolate" /\ outcome' = "ok"

\* the common time sequence of the call a step makes
GridOf(c) ==
    Arange(IF Truthy(c.start) THEN c.start.a ELSE msidset.tstart,
           IF Truthy(c.stop) THEN c.stop.a ELSE msidset.tstop, c.dt)

\* the column col of a member as interpolate finds it: without the samples
\* flagged bad if the call filters and the member has a mask
SourceCol(self, col, filter) ==
    IF filter /\ ~self.bads.isNone THEN Kept(col, Not(self.bads.a)) ELSE col

\* the samples of times (counted from 1) nearest to x
NearestSet(times, x) ==
    {j \in 1..Len(times) :
        \A i \in 1..Len(times) : Abs(times[j] - x) <= Abs(times[i] - x)}

Lowest(S) == CHOOSE j \in S : \A i \in S : j <= i
Highest(S) == CHOOSE j \in S : \A i \in S : j >= i

\* every column of a member holds at each point of the grid the entry of
\* the source sample Pick chooses among the nearest, times0 its timestamp
AlignedBy(Pick(_)) ==
    \A m \in DOMAIN msids :
        LET grid == GridOf(call')
            src == SourceCol(msids[m], msids[m].times, call'.filter)
            J(k) == Pick(NearestSet(src, grid[k]))
        IN /\ msids'[m].times = grid
           /\ Len(msids'[m].times0) = Len(grid)
           /\ \A k \in 1..Len(grid) :
                 /\ msids'[m].times0[k] = src[J(k)]
                 /\ \A c \in DataCols(msids[m]) \ {"times"} :
                       /\ Len(msids'[m][c]) = Len(grid)
                       /\ msids'[m][c][k] =
                              SourceCol(msids[m], msids[m][c], call'.filter)[J(k)]
                 /\ (~call'.filter /\ ~msids[m].bads.isNone) =>
                       /\ Len(msids'[m].bads.a) = Len(grid)
                       /\ msids'[m].bads.a[k] = msids[m].bads.a[J(k)]
           /\ (call'.filter \/ msids[m].bads.isNone) => msids'[m].bads.isNone

\* in the example, with step 10 s from 0 to 20 s, the grid point 10 s holds
\* the sample of index 1 (t = 5 s)
ExampleAligned ==
    (msids = AlignExample /\ GridOf(call') = <<T(0), T(10)>>) =>
        \A m \in DOMAIN msids :
            /\ msids'[m].times0[2] = T(5)
            /\ msids'[m].vals[2] = msids[m].vals[2]

----------------------------------------------------------------------------
(* Vocabulary of the ownership claim *)

\* a step of one of the operations that change a Series in place
ChangesSeries ==
    call'.name \in {"filter_bad", "filter_bad_times", "MSIDset.filter_bad",
                    "MSIDset.interpolate"}

(* C17: MSID.filter_bad, MSID.filter_bad_times, MSIDset.filter_bad and      *)
(* MSIDset.interpolate leave every entry of the cache of read results and   *)
(* times_cache as they are, with CACHE on or off, and a later read served   *)
(* from the cache of read results returns the rows of the archive as a      *)
(* first read does.                                                         *)
C17_CachesNotAliased ==
    [][ /\ ChangesSeries => (lru' = lru /\ times_cache' = times_cache)
        /\ (ReadStep /\ CACHE /\ call'.io = <<>>) => C15_AlignedWindow' ]_vars

\* a read served from the cache after MSIDset.filter_bad removed a sample
\* from the member that was given the same tuple
C17_Witness ==
    /\ ReadReturned /\ CACHE /\ call.io = <<>>
    /\ Len(ret.vals) = 3
    /\ Len(msids["b"].vals) = 2
    /\ msids["b"].bads.isNone

----------------------------------------------------------------------------
(* get_interval called repeatedly with a few argument tuples *)

\* the windows of the repeated calls
MemoWindows ==
    {w \in {T(0), T(3), T(5)} \X {T(0), T(3), T(5)} : w[1] <= w[2]}

NextMemo == \E w \in MemoWindows : get_interval("g1", w[1], w[2])

SpecMemo == InitLocate /\ [][NextMemo]_vars

\* the argument tuple of the call of a step
ArgsOf(c) == <<c.content, c.tstart, c.tstop>>

\* a step that calls get_interval
LocateStep == call'.name = "get_interval"

(* C21: a call of get_interval whose (content, tstart, tstop) is that of an *)
(* earlier call that returned gives that call's result without querying    *)
(* the archfiles table; a call that returns is stored under its argument   *)
(* tuple, no stored entry is ever removed or changed, and a call that      *)
(* raises stores nothing, so that the same call queries the table again.   *)
C21_Memoized ==
    [][ LocateStep =>
          /\ \A k \in DOMAIN memo : k \in DOMAIN memo' /\ memo'[k] = memo[k]
          /\ ArgsOf(call') \in DOMAIN memo =>
                /\ outcome' = "ok"
                /\ ret' = memo[ArgsOf(call')]
                /\ call'.io = <<>>
          /\ ArgsOf(call') \notin DOMAIN memo =>
                /\ call'.io = <<"archfiles">>
                /\ outcome' = "ok" =>
                      /\ ArgsOf(call') \in DOMAIN memo'
                      /\ memo'[ArgsOf(call')] = ret'
                /\ outcome' # "ok" => memo' = memo ]_vars

\* a call answered from the cache while the cache holds other tuples too
C21_Witness ==
    /\ LocateCalled /\ outcome = "ok" /\ call.io = <<>>
    /\ Cardinality(DOMAIN memo) >= 3
    /\ ret = memo[ArgsOf(call)]

----------------------------------------------------------------------------
(* The filters and the aligner applied in any order to a set of two members *)

InitLock ==
    /\ \E n \in 0..MaxSamples, cb \in {"g1", "g2"}, stat \in BOOLEAN :
          IF stat
          THEN msids = [m \in {"a", "b"} |->
                   IF m = "a"
                   THEN NewStatMSID("A", "g1", SubSeq(BaseOf("g1"), 1, n), ValsOf(1, n))
                   ELSE NewStatMSID("B", cb, SubSeq(BaseOf(cb), 1, n), ValsOf(2, n))]
          ELSE \E ba, bb \in {None} \cup {Arr(x) : x \in Masks(n, MaxSetBad)} :
               msids = [m \in {"a", "b"} |->
                   IF m = "a"
                   THEN NewMSID("A", "g1", SubSeq(BaseOf("g1"), 1, n), ValsOf(1, n), ba)
                   ELSE NewMSID("B", cb, SubSeq(BaseOf(cb), 1, n), ValsOf(2, n), bb)]
    /\ msidset = [NoSet EXCEPT !.tstop = T(3)]
    /\ call = NoCall
    /\ outcome = "ok"
    /\ intervals = <<>>
    /\ InitStore(NoArchive)
    /\ ret = <<>>

\* the masks passed to filter_bad: one sample flagged in a mask of the
\* length of the longest Series and in a shorter one, and none flagged;
\* the intervals passed to filter_bad_times: on the first sample, reversed;
\* the set is interpolated once, to the grid 0 s, 2 s
NextLock ==
    \/ \E m \in DOMAIN msids : filter_bad(m)
    \/ \E m \in DOMAIN msids,
          bads \in { [i \in 1..n |-> i = 1] : n \in {MaxSamples - 1, MaxSamples} }
                   \cup { [i \in 1..MaxSamples |-> FALSE] } :
           filter_bad_with(m, bads)
    \/ \E m \in DOMAIN msids,
          ss \in { <<Arr(T(0)), Arr(T(0))>>, <<Arr(T(2)), Arr(T(0))>> } :
           filter_bad_times(m, ss[1], ss[2], None)
    \/ MSIDset_filter_bad
    \/ \E filter \in BOOLEAN :
           /\ msidset.times.isNone
           /\ MSIDset_interpolate(T(2), None, None, filter)

SpecLock == InitLock /\ [][NextLock]_vars

(* C22: after any sequence of MSID.filter_bad (with or without a mask      *)
(* argument), MSID.filter_bad_times, MSIDset.filter_bad and                *)
(* MSIDset.interpolate, whether the calls returned or raised, every column *)
(* of colnames that is not None has the length of times, and bads has the  *)
(* length of vals whenever it is not None.                                 *)
C22_LockStepAlways ==
    \A m \in DOMAIN msids :
        /\ LockStep(msids[m])
        /\ ~msids[m].bads.isNone => Len(msids[m].bads.a) = Len(msids[m].vals)

----------------------------------------------------------------------------
(* Reads with the toggle and the unit system changed between them *)

\* set_units(unit_system): units.set_units selects the system that
\* units.convert uses from then on
set_units(system) ==
    /\ unit_system' = system
    /\ call' = [NoCall EXCEPT !.name = "set_units"]
    /\ UNCHANGED <<msidset, msids, outcome, intervals, archive, memo, times_cache,
                   lru, CACHE, ret>>

\* the windows read: over all rows, and from the first row to the last
NextUnits ==
    \/ \E on \in BOOLEAN : set_CACHE(on)
    \/ \E system \in {"cxc", "sci", "eng"} : set_units(system)
    \/ \E w \in { <<T(0), RowTime(3) + T(1)>>, <<RowTime(1), RowTime(3)>> },
          msid \in {<<"a">>, <<"b">>} :
          MSID_init("a", msid, w[1], w[2], FALSE)

SpecUnits == InitCache /\ [][NextUnits]_vars

\* what _get_msid_data returns for the arguments of call c and MSID when
\* the dictionaries of get_interval and times_cache are as at import
ColdRead(c, MSID, system) ==
    GetMsidData(archive, <<>>, [key |-> None], system, "g1", c.tstart, c.tstop,
                MSID).val

(* C23: with CACHE on or off and the unit system changed by set_units      *)
(* between reads, every read returns the vals, times and bads that         *)
(* _get_msid_data returns for the same arguments with empty caches under   *)
(* the unit system selected when the read is made.                         *)
C23_CacheTransparent ==
    [][ ReadStep => ret' = ColdRead(call', msids'["a"].MSID, unit_system) ]_vars

====
